---- MODULE Spec2Model ----
(***************************************************************************)
(* Settlement engine of the splitwise bot: CalculationService              *)
(* (src/bot/services/calculation_service.py).                              *)
(*                                                                         *)
(* Money is a Python Decimal.  Every quantity of the model is an integer   *)
(* number of micro-units (10^-6 of the currency unit): stored amounts      *)
(* (Numeric(12,2)) are multiples of Cent, percentages (Numeric(5,2)) are   *)
(* counted in hundredths of a percent, so amount * percentage / 100 is     *)
(* exact, as it is for Decimal.  The only inexact Decimal operation of the *)
(* engine, amount / len(splits), is rounded half-even at the resolution of *)
(* the model (one micro-unit) where Decimal rounds half-even at 28         *)
(* significant digits.                                                     *)
(*                                                                         *)
(* None is modelled as 0 for ids (the code tests ids by truthiness) and as *)
(* NoneVal for the optional share fields.                                  *)
(***************************************************************************)
EXTENDS Integers, Sequences, FiniteSets

\* ------------------------------------------------------------------ bounds

MaxBalances == 5         \* entries of a balance map given to the minimizer
NumParticipants == 4     \* participants of the event of a snapshot
MaxFamilySize == 3       \* members of the family of a snapshot
MaxSplits == 3           \* split entries of an equal expense
MaxShareSplits == 2      \* split entries of a custom or specific expense
MaxExpenses == 1         \* non-deleted expenses of a snapshot
MaxRecalculations == 1   \* further calls of calculate_debts on a snapshot
MaxParticipantRows == 3  \* rows of the table participants
MaxExpenseRows == 2      \* rows of the table expenses
MaxCreatedSplits == 2    \* split entries handed to create_expense
MaxTieBalances == 4      \* entries of a balance map with half-cent remainders
MaxSettlementRows == 4   \* rows of the table debt_settlements
MaxSavedTransfers == 2   \* transfers handed to save_settlements
MaxNotifications == 3    \* calls of notify_calculation_complete
MaxReorderedExpenses == 2    \* expenses of a snapshot that is loaded in two orders
Precision == 9           \* significant digits the Decimal context keeps, scaled to the
                         \* amounts of the model (the context of the program keeps 28)

\* --------------------------------------------------------------- constants

Cent == 10000            \* Decimal("0.01") in micro-units
NoneVal == -1            \* None in share_amount / share_percentage

VARIABLES
    participants,  \* active participants of the event (keys of the id -> name dict)
    families,      \* family id -> [members, head] as loaded
    family_map,    \* participant id -> [family, head]
    expenses,      \* non-deleted expenses with their splits, in load order
    balances,      \* insertion-ordered dict participant id -> balance
    debtors,       \* list of (pid, remaining debt), sorted
    creditors,     \* list of (pid, remaining credit), sorted
    i,             \* debtor pointer (0-based, as in the code)
    j,             \* creditor pointer (0-based)
    settlements,   \* emitted transfers (debtor, creditor, amount)
    result,        \* participant id -> [balance, debts, credits]
    err,           \* exception that ended the computation, "none" if none
    pc,            \* position of the computation
    steps,         \* passes through the body of the matching loop
    previous,      \* what earlier calls of calculate_debts produced
    participant_rows,  \* table participants: id -> [is_active]
    expense_rows,  \* table expenses in id order: [expense, is_deleted]
    settlement_rows,   \* table debt_settlements in id order
    family_rows,   \* tables families and family_members: id -> [members, family_head_id]
    fsm,           \* FSM data of the user: nothing, or [event_id, debts]
    keyboards,     \* events whose "send notifications?" keyboard the user holds
    notified       \* notifications sent: [event_id, debts]

vars == <<participants, families, family_map, expenses, balances,
          debtors, creditors, i, j, settlements, result, err, pc,
          steps, previous, participant_rows, expense_rows,
          settlement_rows, family_rows, fsm, keyboards, notified>>

\* a row of the table participants / of the table expenses
ParticipantRow(active) == [is_active |-> active]

ExpenseRow(e, deleted) == [expense |-> e, is_deleted |-> deleted]

\* empty dicts
NoFamilies == [f \in {} |-> 0]

NoFamilyMap == [p \in {} |-> 0]

NoResult == [p \in {} |-> 0]

\* ------------------------------------------------------- Decimal arithmetic

Abs(x) == IF x < 0 THEN -x ELSE x

Max(a, b) == IF a <= b THEN b ELSE a

Min(a, b) == IF a <= b THEN a ELSE b

\* round-half-even of x to a multiple of q (q > 0); \div floors, % is >= 0
RoundHalfEven(x, q) ==
    LET r == x % q
        f == x - r
    IN  IF 2 * r < q THEN f
        ELSE IF 2 * r > q THEN f + q
        ELSE IF (f \div q) % 2 = 0 THEN f ELSE f + q

RoundHalfUp(x) == ((x + Cent \div 2) \div Cent) * Cent

\* rounding up to the next multiple of 0.01
RoundCeiling(x) == ((x + Cent - 1) \div Cent) * Cent

\* round(amount, 2)
Round2(x) == RoundHalfEven(x, Cent)

\* the number of decimal digits of x >= 0
RECURSIVE Digits(_)
Digits(x) == IF x < 10 THEN 1 ELSE 1 + Digits(x \div 10)

RECURSIVE Pow10(_)
Pow10(n) == IF n = 0 THEN 1 ELSE 10 * Pow10(n - 1)

\* the unit of the last digit the context keeps of a value of the magnitude of x
Quantum(x) ==
    LET digits == Digits(Abs(x))
    IN  IF digits <= Precision THEN 1 ELSE Pow10(digits - Precision)

\* every result rounded to whole units
QuantizeUnits(x) == RoundHalfEven(x, 100 * Cent)

\* the result of a Decimal operation: the exact value rounded half-even to
\* the digits the context keeps
Quantize(x) ==
    LET unit == Quantum(x)
    IN  IF unit = 1 THEN x ELSE RoundHalfEven(x, unit)

\* a / n rounded half-even to a whole number
DivHalfEven(a, n) ==
    LET q == a \div n
        r == a % n
    IN  IF 2 * r < n THEN q
        ELSE IF 2 * r > n THEN q + 1
        ELSE IF q % 2 = 0 THEN q ELSE q + 1

\* Decimal / int, rounded half-even at the precision of the context
DecDiv(a, n) ==
    LET unit == Quantum(a \div n)
    IN  DivHalfEven(a, n * unit) * unit

\* amount * percentage / 100, percentage in hundredths of a percent
PercentOf(amount, pct) == (amount \div Cent) * pct

\* --------------------------------------------------- insertion-ordered dict

Entry(p, b) == [pid |-> p, bal |-> b]

DictHas(d, k) == \E n \in 1..Len(d) : d[n].pid = k

DictKeys(d) == {d[n].pid : n \in 1..Len(d)}

DictGet(d, k, default) ==
    IF DictHas(d, k)
    THEN (CHOOSE e \in {d[n] : n \in 1..Len(d)} : e.pid = k).bal
    ELSE default

\* balances[k] += delta on a defaultdict(Decimal(0)): a missing key is inserted last
DictAdd(d, k, delta) ==
    IF DictHas(d, k)
    THEN [n \in 1..Len(d) |->
             IF d[n].pid = k THEN Entry(k, Quantize(d[n].bal + delta)) ELSE d[n]]
    ELSE Append(d, Entry(k, Quantize(delta)))

RECURSIVE SumBal(_)
SumBal(d) == IF d = <<>> THEN 0 ELSE d[1].bal + SumBal(Tail(d))

\* ------------------------------------------------- _minimize_transactions

Item(p, a) == [pid |-> p, amt |-> a]

Transfer(d, c, a) == [debtor |-> d, creditor |-> c, amount |-> a]

\* every nonzero balance taken as a debt
RECURSIVE DebtorsOfAny(_)
DebtorsOfAny(d) ==
    IF d = <<>> THEN <<>>
    ELSE IF d[1].bal # 0 THEN <<Item(d[1].pid, Abs(d[1].bal))>> \o DebtorsOfAny(Tail(d))
    ELSE DebtorsOfAny(Tail(d))

\* the debtors collected from the last entry of the map to the first
RECURSIVE DebtorsOfBackwards(_)
DebtorsOfBackwards(d) ==
    IF d = <<>> THEN <<>>
    ELSE IF d[Len(d)].bal < 0
         THEN <<Item(d[Len(d)].pid, -d[Len(d)].bal)>>
                  \o DebtorsOfBackwards(SubSeq(d, 1, Len(d) - 1))
    ELSE DebtorsOfBackwards(SubSeq(d, 1, Len(d) - 1))

\* [(pid, -bal) for pid, bal in balances.items() if bal < 0]
RECURSIVE DebtorsOf(_)
DebtorsOf(d) ==
    IF d = <<>> THEN <<>>
    ELSE IF d[1].bal < 0 THEN <<Item(d[1].pid, -d[1].bal)>> \o DebtorsOf(Tail(d))
    ELSE DebtorsOf(Tail(d))

RECURSIVE CreditorsOfAny(_)
CreditorsOfAny(d) ==
    IF d = <<>> THEN <<>>
    ELSE IF d[1].bal # 0 THEN <<Item(d[1].pid, Abs(d[1].bal))>> \o CreditorsOfAny(Tail(d))
    ELSE CreditorsOfAny(Tail(d))

\* [(pid, bal) for pid, bal in balances.items() if bal > 0]
RECURSIVE CreditorsOf(_)
CreditorsOf(d) ==
    IF d = <<>> THEN <<>>
    ELSE IF d[1].bal > 0 THEN <<Item(d[1].pid, d[1].bal)>> \o CreditorsOf(Tail(d))
    ELSE CreditorsOf(Tail(d))

RECURSIVE InsertDescBefore(_, _)
InsertDescBefore(s, x) ==
    IF s = <<>> THEN <<x>>
    ELSE IF s[1].amt > x.amt THEN <<s[1]>> \o InsertDescBefore(Tail(s), x)
    ELSE <<x>> \o s

RECURSIVE InsertAsc(_, _)
InsertAsc(s, x) ==
    IF s = <<>> THEN <<x>>
    ELSE IF s[1].amt <= x.amt THEN <<s[1]>> \o InsertAsc(Tail(s), x)
    ELSE <<x>> \o s

\* insert x behind every element that is at least as large: a stable descending sort
RECURSIVE InsertDesc(_, _)
InsertDesc(s, x) ==
    IF s = <<>> THEN <<x>>
    ELSE IF s[1].amt >= x.amt THEN <<s[1]>> \o InsertDesc(Tail(s), x)
    ELSE <<x>> \o s

Unsorted(s) == s

\* list.sort(key=lambda x: x[1], reverse=True)
RECURSIVE SortDesc(_)
SortDesc(s) ==
    IF s = <<>> THEN <<>>
    ELSE InsertDesc(SortDesc(SubSeq(s, 1, Len(s) - 1)), s[Len(s)])

MinimizeStartOnto(b) ==
    [debtors |-> SortDesc(DebtorsOf(b)),
     creditors |-> SortDesc(CreditorsOf(b)),
     i |-> 0, j |-> 0, settlements |-> settlements]

\* the locals of _minimize_transactions when the loop is first reached
MinimizeStart(b) ==
    [debtors |-> SortDesc(DebtorsOf(b)),
     creditors |-> SortDesc(CreditorsOf(b)),
     i |-> 0, j |-> 0, settlements |-> <<>>]

\* while i < len(debtors) and j < len(creditors)
LoopCond(m) == m.i < Len(m.debtors) /\ m.j < Len(m.creditors)

RecordedInclusive(amount) == amount >= Cent

\* every amount is recorded, the noise floor left out
RecordedAlways(amount) == TRUE

\* if amount > Decimal("0.01")
Recorded(amount) == amount > Cent

SettledInclusive(rest) == rest <= Cent

\* if debtors[i][1] < Decimal("0.01") / if creditors[j][1] < Decimal("0.01")
Settled(rest) == rest < Cent

MatchStepUnreduced(m) ==
    LET d == m.debtors[m.i + 1]
        c == m.creditors[m.j + 1]
        amount == Round2(Min(d.amt, c.amt))
        taken == IF Recorded(amount) THEN amount ELSE 0
    IN  [debtors |-> [m.debtors EXCEPT ![m.i + 1] = Item(d.pid, d.amt - taken)],
         creditors |-> [m.creditors EXCEPT ![m.j + 1] = Item(c.pid, c.amt - taken)],
         i |-> IF Settled(d.amt - amount) THEN m.i + 1 ELSE m.i,
         j |-> IF Settled(c.amt - amount) THEN m.j + 1 ELSE m.j,
         settlements |-> IF Recorded(amount)
                         THEN Append(m.settlements, Transfer(d.pid, c.pid, amount))
                         ELSE m.settlements]

\* one iteration of the matching loop
MatchStep(m) ==
    LET d == m.debtors[m.i + 1]
        c == m.creditors[m.j + 1]
        amount == Round2(Min(d.amt, c.amt))
        drest == d.amt - amount
        crest == c.amt - amount
    IN  [debtors |-> [m.debtors EXCEPT ![m.i + 1] = Item(d.pid, drest)],
         creditors |-> [m.creditors EXCEPT ![m.j + 1] = Item(c.pid, crest)],
         i |-> IF Settled(drest) THEN m.i + 1 ELSE m.i,
         j |-> IF Settled(crest) THEN m.j + 1 ELSE m.j,
         settlements |-> IF Recorded(amount)
                         THEN Append(m.settlements, Transfer(d.pid, c.pid, amount))
                         ELSE m.settlements]

RECURSIVE RunLoop(_)
RunLoop(m) == IF LoopCond(m) THEN RunLoop(MatchStep(m)) ELSE m

MinimizeTransactions(b) == RunLoop(MinimizeStart(b))

\* the number of passes through the loop body from the locals m on
RECURSIVE LoopSteps(_)
LoopSteps(m) == IF LoopCond(m) THEN 1 + LoopSteps(MatchStep(m)) ELSE 0

\* ---------------------------------------------------- _calculate_balances

Split(p, f, a, pct) ==
    [participant_id |-> p, family_id |-> f, share_amount |-> a, share_percentage |-> pct]

Expense(payer, amount, type, splits) ==
    [payer_id |-> payer, amount |-> amount, split_type |-> type, splits |-> splits]

Family(members, head) == [members |-> members, family_head_id |-> head]

\* _build_family_map: member.participant_id -> (family.id, family.family_head_id);
\* with one row per member and family the row order does not matter
BuildFamilyMap(fams) ==
    [p \in UNION {fams[f].members : f \in DOMAIN fams} |->
        LET f == CHOOSE g \in DOMAIN fams : p \in fams[g].members
        IN  [family_id |-> f, family_head_id |-> fams[f].family_head_id]]

NoRedirect(p, fm) == p

\* if pid in family_map: _, head = family_map[pid]; if head: pid = head
Redirect(p, fm) ==
    IF p \in DOMAIN fm /\ fm[p].family_head_id # 0 THEN fm[p].family_head_id ELSE p

\* the outcome of one split entry: an exception, or the participant that is
\* debited (0 when the entry debits nobody) and the amount
Raise(e) == [err |-> e, target |-> 0, amount |-> 0]

Debit(p, a) == [err |-> "none", target |-> p, amount |-> a]

\* the entry that debits nobody charged to the first participant instead
FirstParticipant == Debit(1, Cent)

Nobody == Debit(0, 0)

TargetDebitPerMember(s, amount, fams, fm) ==
    IF s.participant_id # 0 THEN Debit(Redirect(s.participant_id, fm), amount)
    ELSE IF s.family_id # 0
    THEN IF s.family_id \notin DOMAIN fams THEN Raise("KeyError")
         ELSE IF fams[s.family_id].family_head_id # 0
              THEN Debit(fams[s.family_id].family_head_id,
                         amount * Cardinality(fams[s.family_id].members))
              ELSE Nobody
    ELSE Nobody

\* the target of an entry of a custom or specific expense, debited by amount
TargetDebit(s, amount, fams, fm) ==
    IF s.participant_id # 0 THEN Debit(Redirect(s.participant_id, fm), amount)
    ELSE IF s.family_id # 0
    THEN IF s.family_id \notin DOMAIN fams THEN Raise("KeyError")
         ELSE IF fams[s.family_id].family_head_id # 0
              THEN Debit(fams[s.family_id].family_head_id, amount)
              ELSE Nobody
    ELSE Nobody

EqualSplitPerHead(s, share, fams, fm) ==
    IF s.participant_id # 0 THEN Debit(Redirect(s.participant_id, fm), share)
    ELSE IF s.family_id # 0
    THEN IF s.family_id \notin DOMAIN fams THEN Raise("KeyError")
         ELSE IF fams[s.family_id].family_head_id # 0
              THEN Debit(fams[s.family_id].family_head_id, share)
              ELSE Nobody
    ELSE Nobody

\* the participant named by an entry debited even when a head stands in for it
EqualSplitDirect(s, share, fams, fm) ==
    IF s.participant_id # 0 THEN Debit(s.participant_id, share)
    ELSE IF s.family_id # 0
    THEN IF s.family_id \notin DOMAIN fams THEN Raise("KeyError")
         ELSE IF fams[s.family_id].family_head_id # 0
              THEN Debit(fams[s.family_id].family_head_id,
                         share * Cardinality(fams[s.family_id].members))
              ELSE Nobody
    ELSE Nobody

\* lines 214-235: an entry of an equal expense
EqualSplit(s, share, fams, fm) ==
    IF s.participant_id # 0 THEN Debit(Redirect(s.participant_id, fm), share)
    ELSE IF s.family_id # 0
    THEN IF s.family_id \notin DOMAIN fams THEN Raise("KeyError")
         ELSE LET family == fams[s.family_id]
                  family_size == Cardinality(family.members)
                  family_share == Quantize(share * family_size)
              IN  IF family.family_head_id # 0
                  THEN Debit(family.family_head_id, family_share)
                  ELSE Nobody
    ELSE Nobody

\* lines 239-257: an entry of a custom expense;
\* amount = split.share_amount or (expense.amount * split.share_percentage / 100)
CustomSplit(e, s, fams, fm) ==
    IF s.share_amount # NoneVal /\ s.share_amount # 0
    THEN TargetDebit(s, s.share_amount, fams, fm)
    ELSE IF s.share_percentage = NoneVal THEN Raise("TypeError")
    ELSE TargetDebit(s, PercentOf(e.amount, s.share_percentage), fams, fm)

\* lines 261-277: an entry of a specific expense; balances[...] -= None raises
SpecificSplit(e, s, fams, fm) ==
    LET d == TargetDebit(s, s.share_amount, fams, fm)
    IN  IF d.err = "none" /\ d.target # 0 /\ s.share_amount = NoneVal
        THEN Raise("TypeError")
        ELSE d

SplitOutcome(e, s, share, fams, fm) ==
    IF e.split_type = "equal" THEN EqualSplit(s, share, fams, fm)
    ELSE IF e.split_type = "custom" THEN CustomSplit(e, s, fams, fm)
    ELSE IF e.split_type = "specific" THEN SpecificSplit(e, s, fams, fm)
    ELSE Nobody

Failed(e) == [err |-> e, balances |-> <<>>]

Computed(b) == [err |-> "none", balances |-> b]

\* for split in expense.splits, from the k-th entry on
RECURSIVE DebitSplits(_, _, _, _, _, _)
DebitSplits(b, e, k, share, fams, fm) ==
    IF k > Len(e.splits) THEN Computed(b)
    ELSE LET d == SplitOutcome(e, e.splits[k], share, fams, fm)
         IN  IF d.err # "none" THEN Failed(d.err)
             ELSE DebitSplits(IF d.target # 0 THEN DictAdd(b, d.target, -d.amount) ELSE b,
                              e, k + 1, share, fams, fm)

\* lines 198-277: the body of "for expense in expenses"
OneExpense(b, e, fams, fm) ==
    LET credited == DictAdd(b, Redirect(e.payer_id, fm), e.amount)
    IN  IF e.split_type = "equal"
        THEN IF Len(e.splits) = 0 THEN Failed("ZeroDivisionError")
             ELSE DebitSplits(credited, e, 1, DecDiv(e.amount, Len(e.splits)), fams, fm)
        ELSE DebitSplits(credited, e, 1, 0, fams, fm)

RECURSIVE FoldExpenses(_, _, _, _, _)
FoldExpenses(b, es, k, fams, fm) ==
    IF k > Len(es) THEN Computed(b)
    ELSE LET r == OneExpense(b, es[k], fams, fm)
         IN  IF r.err # "none" THEN r ELSE FoldExpenses(r.balances, es, k + 1, fams, fm)

CalculateBalances(es, fams, fm) == FoldExpenses(<<>>, es, 1, fams, fm)

\* ------------------------------------------- calculate_debts, lines 62-91

NameOf(p) == p

Debt(t) == [to_id |-> t.creditor, to_name |-> NameOf(t.creditor), amount |-> t.amount]

Credit(t) == [from_id |-> t.debtor, from_name |-> NameOf(t.debtor), amount |-> t.amount]

RECURSIVE DebtsOfReversed(_, _)
DebtsOfReversed(s, p) ==
    IF s = <<>> THEN <<>>
    ELSE DebtsOfReversed(Tail(s), p) \o (IF s[1].debtor = p THEN <<Debt(s[1])>> ELSE <<>>)

RECURSIVE DebtsOf(_, _)
DebtsOf(s, p) ==
    IF s = <<>> THEN <<>>
    ELSE (IF s[1].debtor = p THEN <<Debt(s[1])>> ELSE <<>>) \o DebtsOf(Tail(s), p)

RECURSIVE CreditsOf(_, _)
CreditsOf(s, p) ==
    IF s = <<>> THEN <<>>
    ELSE (IF s[1].debtor # p /\ s[1].creditor = p THEN <<Credit(s[1])>> ELSE <<>>)
         \o CreditsOf(Tail(s), p)

\* participants[creditor_id] / participants[debtor_id] of a participant that
\* is not active raises KeyError
NameMissing(ps, s) ==
    \E n \in 1..Len(s) :
        \/ s[n].debtor \in DOMAIN ps /\ s[n].creditor \notin DOMAIN ps
        \/ s[n].debtor \notin DOMAIN ps /\ s[n].creditor \in DOMAIN ps

DefaultOne(b, p) == DictGet(b, p, 1)

\* balances.get(participant_id, Decimal(0))
BalanceOrZero(b, p) == DictGet(b, p, 0)

BuildResult(ps, b, s) ==
    [p \in DOMAIN ps |->
        [name |-> ps[p], balance |-> BalanceOrZero(b, p),
         debts |-> DebtsOf(s, p), credits |-> CreditsOf(s, p)]]

\* --------------------------------------------------------------- snapshot

Participants == 1..NumParticipants

Unit == 100 * Cent       \* Decimal("1.00") in micro-units

Amounts == {90 * Unit, 100 * Unit, 300 * Unit}

\* a split entry targets a participant or the family
Targets == {<<p, 0>> : p \in Participants} \cup {<<0, 1>>}

EqualEntries == {Split(t[1], t[2], NoneVal, NoneVal) : t \in Targets}

\* share amount and share percentage of a custom entry
CustomShares ==
    {<<50 * Unit, NoneVal>>, <<100 * Unit, NoneVal>>, <<NoneVal, 5000>>,
     <<0, 5000>>, <<0, NoneVal>>}

CustomEntries == {Split(t[1], t[2], c[1], c[2]) : t \in Targets, c \in CustomShares}

SpecificEntries ==
    {Split(t[1], t[2], a, NoneVal) : t \in Targets, a \in {0, 50 * Unit, 100 * Unit}}

Locals == [debtors |-> debtors, creditors |-> creditors, i |-> i, j |-> j,
           settlements |-> settlements]

SetLocals(m) ==
    /\ debtors' = m.debtors
    /\ creditors' = m.creditors
    /\ i' = m.i
    /\ j' = m.j
    /\ settlements' = m.settlements

\* the split lists an expense of each policy may carry
EqualSplitLists == UNION {[1..l -> EqualEntries] : l \in 0..MaxSplits}

CustomSplitLists == UNION {[1..l -> CustomEntries] : l \in 1..MaxShareSplits}

SpecificSplitLists == UNION {[1..l -> SpecificEntries] : l \in 1..MaxShareSplits}

SplitTypes == {"equal", "custom", "specific"}

SplitListsOf(type) ==
    IF type = "equal" THEN EqualSplitLists
    ELSE IF type = "custom" THEN CustomSplitLists
    ELSE SpecificSplitLists

\* ------------------------------------------------------- calculate_debts

\* the state after the four loads of lines 45-52: every participant active,
\* no family or one family, at most MaxExpenses expenses
Init ==
    /\ participants = [p \in Participants |-> NameOf(p)]
    /\ \E present \in BOOLEAN, m \in 0..MaxFamilySize, h \in 0..NumParticipants :
          /\ ~present => (m = 0 /\ h = 0)
          /\ families = IF present THEN [f \in {1} |-> Family(1..m, h)] ELSE NoFamilies
    /\ family_map = BuildFamilyMap(families)
    /\ \E n \in 0..MaxExpenses :
          \E payer \in [1..n -> Participants], amount \in [1..n -> Amounts],
             type \in [1..n -> SplitTypes] :
             \E splits \in [1..n -> EqualSplitLists \cup CustomSplitLists \cup SpecificSplitLists] :
                /\ \A k \in 1..n : splits[k] \in SplitListsOf(type[k])
                /\ expenses = [k \in 1..n |-> Expense(payer[k], amount[k], type[k], splits[k])]
    /\ balances = <<>>
    /\ debtors = <<>>
    /\ creditors = <<>>
    /\ i = 0
    /\ j = 0
    /\ settlements = <<>>
    /\ result = NoResult
    /\ err = "none"
    /\ pc = "balances"
    /\ steps = 0
    /\ previous = <<>>
    /\ participant_rows = [p \in Participants |-> ParticipantRow(TRUE)]
    /\ expense_rows = [k \in DOMAIN expenses |-> ExpenseRow(expenses[k], FALSE)]
    /\ settlement_rows = <<>>
    /\ family_rows = NoFamilies
    /\ fsm = <<>>
    /\ keyboards = {}
    /\ notified = <<>>

\* lines 55-57
Balance ==
    /\ pc = "balances"
    /\ LET r == CalculateBalances(expenses, families, family_map)
       IN  /\ err' = r.err
           /\ balances' = r.balances
           /\ pc' = IF r.err = "none" THEN "minimize" ELSE "raised"
    /\ UNCHANGED <<participants, families, family_map, expenses,
                   debtors, creditors, i, j, settlements, result>>
    /\ UNCHANGED <<steps, previous, participant_rows, expense_rows>>
    /\ UNCHANGED <<settlement_rows, family_rows, fsm, keyboards, notified>>

\* line 60
Minimize ==
    /\ pc = "minimize"
    /\ SetLocals(MinimizeTransactions(balances))
    /\ steps' = LoopSteps(MinimizeStart(balances))
    /\ pc' = "assemble"
    /\ UNCHANGED <<participants, families, family_map, expenses, balances, result, err>>
    /\ UNCHANGED <<previous, participant_rows, expense_rows>>
    /\ UNCHANGED <<settlement_rows, family_rows, fsm, keyboards, notified>>

\* lines 62-91
Assemble ==
    /\ pc = "assemble"
    /\ IF NameMissing(participants, settlements)
       THEN /\ err' = "KeyError"
            /\ pc' = "raised"
            /\ UNCHANGED result
       ELSE /\ result' = BuildResult(participants, balances, settlements)
            /\ pc' = "done"
            /\ UNCHANGED err
    /\ UNCHANGED <<participants, families, family_map, expenses, balances,
                   debtors, creditors, i, j, settlements>>
    /\ UNCHANGED <<steps, previous, participant_rows, expense_rows>>
    /\ UNCHANGED <<settlement_rows, family_rows, fsm, keyboards, notified>>

Next == Balance \/ Minimize \/ Assemble

Spec == Init /\ [][Next]_vars

\* --------------------------------------------------------- balance claims

\* _calculate_balances has returned a balance map
BalancesReturned == pc \in {"minimize", "assemble", "done"}

Done == pc = "done"

\* the head of the family q is a member of, 0 if q has no family or no head
HeadOfMember(q) ==
    IF \E f \in DOMAIN families : q \in families[f].members
    THEN families[CHOOSE f \in DOMAIN families : q \in families[f].members].family_head_id
    ELSE 0

\* who answers for participant q: the head of q's family if there is one
Owner(q) == IF HeadOfMember(q) # 0 THEN HeadOfMember(q) ELSE q

TargetsParticipant(s) == s.participant_id # 0

\* who an entry is charged to, 0 for the entry of a family without head
ChargedTo(s) ==
    IF TargetsParticipant(s) THEN Owner(s.participant_id)
    ELSE families[s.family_id].family_head_id

MembersOf(s) == Cardinality(families[s.family_id].members)

\* the share a custom entry states: its share amount if it has one, else its percentage
StatedShare(e, s) ==
    IF s.share_amount # NoneVal THEN s.share_amount
    ELSE (e.amount \div Cent) * s.share_percentage

\* the share the code takes for a custom entry: its share amount unless that
\* is missing or zero, else its percentage
ResolvedShare(e, s) ==
    IF s.share_amount \notin {NoneVal, 0} THEN s.share_amount
    ELSE (e.amount \div Cent) * s.share_percentage

\* what an entry charges, custom entries counted as stated / as resolved
Charge(e, s, stated) ==
    IF e.split_type = "equal"
    THEN DecDiv(e.amount, Len(e.splits)) * (IF TargetsParticipant(s) THEN 1 ELSE MembersOf(s))
    ELSE IF e.split_type = "custom"
    THEN (IF stated THEN StatedShare(e, s) ELSE ResolvedShare(e, s))
    ELSE s.share_amount

RECURSIVE ChargesTo(_, _, _, _)
ChargesTo(e, k, p, stated) ==
    IF k > Len(e.splits) THEN 0
    ELSE (IF ChargedTo(e.splits[k]) = p THEN Charge(e, e.splits[k], stated) ELSE 0)
         + ChargesTo(e, k + 1, p, stated)

RECURSIVE SharesOf(_, _, _)
SharesOf(e, k, stated) ==
    IF k > Len(e.splits) THEN 0
    ELSE (IF e.split_type = "custom"
          THEN (IF stated THEN StatedShare(e, e.splits[k]) ELSE ResolvedShare(e, e.splits[k]))
          ELSE e.splits[k].share_amount)
         + SharesOf(e, k + 1, stated)

\* credits less charges of p over the expenses from the k-th on
RECURSIVE Expected(_, _, _, _)
Expected(es, k, p, stated) ==
    IF k > Len(es) THEN 0
    ELSE (IF Owner(es[k].payer_id) = p THEN es[k].amount ELSE 0)
         - ChargesTo(es[k], 1, p, stated)
         + Expected(es, k + 1, p, stated)

RECURSIVE EntryCount(_)
EntryCount(es) == IF es = <<>> THEN 0 ELSE Len(es[1].splits) + EntryCount(Tail(es))

Entries(e) == {e.splits[k] : k \in 1..Len(e.splits)}

AllExpenses == {expenses[k] : k \in 1..Len(expenses)}

\* the custom and specific expenses whose shares sum exactly to the amount
SharesSumToAmount(stated) ==
    \A e \in AllExpenses : e.split_type # "equal" => SharesOf(e, 1, stated) = e.amount

\* the sum of the balances is zero up to the rounding of amount / len(splits):
\* half a unit of the last digit for each split entry
SumsToZero == 2 * Abs(SumBal(balances)) <= EntryCount(expenses)

\* C4 as stated: when the shares of every custom or specific expense sum to
\* its amount, the returned balances sum to 0 within rounding tolerance,
\* whatever the policies, the targets and the heads.  The share of a custom
\* entry is read as the code takes it (a share amount that is present and not
\* zero, else the percentage), the reading most favourable to the claim.
C4_Conservation ==
    (BalancesReturned /\ SharesSumToAmount(FALSE)) => SumsToZero

\* C4 amended: when the shares of every custom or specific expense, read the
\* same way, sum to its amount, every family targeted by an entry
\* has a head, and every family targeted by an entry of an equal expense has
\* exactly one member, the returned balances sum to 0 within rounding
\* tolerance.
C4_ConservationHeadedFamilies ==
    (/\ BalancesReturned
     /\ SharesSumToAmount(FALSE)
     /\ \A e \in AllExpenses : \A s \in Entries(e) :
           ~TargetsParticipant(s) =>
               /\ ChargedTo(s) # 0
               /\ e.split_type = "equal" => MembersOf(s) = 1)
    => SumsToZero

\* a custom expense with a family entry and an equal expense with a family
\* entry, each conserved
C4_Witness ==
    /\ BalancesReturned
    /\ SharesSumToAmount(FALSE)
    /\ SumsToZero
    /\ Len(expenses) >= 1
    /\ expenses[1].split_type = "custom"
    /\ Len(expenses[1].splits) = 2
    /\ \E s \in Entries(expenses[1]) : ~TargetsParticipant(s) /\ ChargedTo(s) # 0 /\ MembersOf(s) = 3
    /\ \E s \in Entries(expenses[1]) : TargetsParticipant(s) /\ s.share_amount = NoneVal

\* C5: under the equal policy each participant entry charges amount / m to
\* the participant (or to the head of the participant's family) and each
\* family entry charges (amount / m) x members to the head; with amount 100,
\* one lone participant and one family of 3, the participant is charged 50.00
\* and the head 150.00.
C5_EqualFamilyWeighting ==
    (BalancesReturned /\ \A e \in AllExpenses : e.split_type = "equal") =>
        /\ \A p \in Participants :
              DictGet(balances, p, 0) = Expected(expenses, 1, p, TRUE)
        /\ \A P \in Participants, H \in Participants :
              (/\ Len(expenses) = 1
               /\ 1 \in DOMAIN families
               /\ expenses[1].amount = 100 * Unit
               /\ Entries(expenses[1]) = {Split(P, 0, NoneVal, NoneVal), Split(0, 1, NoneVal, NoneVal)}
               /\ Len(expenses[1].splits) = 2
               /\ Owner(P) = P
               /\ P # H
               /\ families[1].family_head_id = H
               /\ Cardinality(families[1].members) = 3)
              => LET credit(x) == IF Owner(expenses[1].payer_id) = x THEN 100 * Unit ELSE 0
                 IN  /\ DictGet(balances, P, 0) = credit(P) - 50 * Unit
                     /\ DictGet(balances, H, 0) = credit(H) - 150 * Unit

\* participant 4 pays 100, split between 4 and the family {1, 2, 3} headed by 1
C5_Witness ==
    /\ BalancesReturned
    /\ families = [f \in {1} |-> Family({1, 2, 3}, 1)]
    /\ expenses = <<Expense(4, 100 * Unit, "equal",
                            <<Split(4, 0, NoneVal, NoneVal), Split(0, 1, NoneVal, NoneVal)>>)>>
    /\ balances = <<Entry(4, 50 * Unit), Entry(1, -150 * Unit)>>

\* C6: the amount of an expense whose payer belongs to a family with a head
\* is credited to the head and not to the payer, and under every policy an
\* entry naming the payer is charged to the head; without family or head the
\* payer is credited.  M paying 90 split equally among M and two others
\* leaves the head at +90 - 30 and M at 0.
C6_HeadStandsInForMember ==
    (BalancesReturned /\ Len(expenses) >= 1) =>
        LET M == expenses[1].payer_id
            H == HeadOfMember(M)
        IN  /\ H # 0 =>
                /\ balances[1].pid = H
                /\ H # M => M \notin DictKeys(balances)
                /\ \A p \in Participants :
                      DictGet(balances, p, 0) = Expected(expenses, 1, p, FALSE)
            /\ H = 0 =>
                /\ balances[1].pid = M
                /\ DictGet(balances, M, 0) = Expected(expenses, 1, M, FALSE)
            /\ \A X \in Participants, Y \in Participants :
                  (/\ H # 0
                   /\ Cardinality({M, H, X, Y}) = 4
                   /\ Owner(X) = X
                   /\ Owner(Y) = Y
                   /\ Len(expenses) = 1
                   /\ expenses[1].amount = 90 * Unit
                   /\ expenses[1].split_type = "equal"
                   /\ Len(expenses[1].splits) = 3
                   /\ Entries(expenses[1]) = {Split(q, 0, NoneVal, NoneVal) : q \in {M, X, Y}})
                  => /\ DictGet(balances, H, 0) = 60 * Unit
                     /\ DictGet(balances, M, 0) = 0

\* member 2 of the family headed by 1 pays 90, split among 2, 3 and 4
C6_Witness ==
    /\ BalancesReturned
    /\ families = [f \in {1} |-> Family({1, 2}, 1)]
    /\ expenses = <<Expense(2, 90 * Unit, "equal",
                            <<Split(2, 0, NoneVal, NoneVal), Split(3, 0, NoneVal, NoneVal),
                              Split(4, 0, NoneVal, NoneVal)>>)>>
    /\ balances = <<Entry(1, 60 * Unit), Entry(3, -30 * Unit), Entry(4, -30 * Unit)>>

\* the transfers of share from each target other than P to P, in list order
RECURSIVE OthersPay(_, _, _)
OthersPay(splits, P, share) ==
    IF splits = <<>> THEN <<>>
    ELSE (IF splits[1].participant_id # P
          THEN <<Transfer(splits[1].participant_id, P, share)>> ELSE <<>>)
         \o OthersPay(Tail(splits), P, share)

\* C7: one equal expense of amount A paid by P, split among N >= 2 distinct
\* participants including P, nobody in a family, A/N a whole number of cents
\* above 0.01: P is left with A - A/N, every other target with -A/N, and the
\* settlement is one transfer of A/N from each other target to P, in the
\* order of the split list.
C7_SingleEqualExpense ==
    (/\ Done
     /\ Len(expenses) = 1
     /\ expenses[1].split_type = "equal"
     /\ DOMAIN family_map = {}
     /\ \A s \in Entries(expenses[1]) : TargetsParticipant(s)
     /\ Cardinality(Entries(expenses[1])) = Len(expenses[1].splits)
     /\ Len(expenses[1].splits) >= 2
     /\ \E s \in Entries(expenses[1]) : s.participant_id = expenses[1].payer_id
     /\ expenses[1].amount % (Len(expenses[1].splits) * Cent) = 0
     /\ expenses[1].amount > Len(expenses[1].splits) * Cent)
    => LET e == expenses[1]
           P == e.payer_id
           share == e.amount \div Len(e.splits)
       IN  /\ DictGet(balances, P, 0) = e.amount - share
           /\ \A s \in Entries(e) :
                 s.participant_id # P => DictGet(balances, s.participant_id, 0) = -share
           /\ settlements = OthersPay(e.splits, P, share)
           /\ Len(settlements) = Len(e.splits) - 1

\* participant 1 pays 300 split among 1, 2 and 3: 2 and 3 each pay 100.00 to 1
C7_Witness ==
    /\ Done
    /\ DOMAIN family_map = {}
    /\ expenses = <<Expense(1, 300 * Unit, "equal",
                            <<Split(1, 0, NoneVal, NoneVal), Split(2, 0, NoneVal, NoneVal),
                              Split(3, 0, NoneVal, NoneVal)>>)>>
    /\ balances = <<Entry(1, 200 * Unit), Entry(2, -100 * Unit), Entry(3, -100 * Unit)>>
    /\ settlements = <<Transfer(2, 1, 100 * Unit), Transfer(3, 1, 100 * Unit)>>

\* C9: under the custom policy an entry with a share amount (0.00 included)
\* is charged exactly that amount and an entry with only a percentage is
\* charged amount x percentage / 100, to the participant (or the head of the
\* participant's family) or once to the head of the targeted family.
C9_CustomShares ==
    (BalancesReturned /\ \A e \in AllExpenses : e.split_type = "custom") =>
        \A p \in Participants : DictGet(balances, p, 0) = Expected(expenses, 1, p, TRUE)

\* C10: with no expense the computation ends without error; every active
\* participant gets balance 0, no debts and no credits, and no transfer is
\* emitted.
C10_NoExpenses ==
    expenses = <<>> =>
        /\ pc # "raised"
        /\ err = "none"
        /\ Done =>
            /\ DOMAIN result = DOMAIN participants
            /\ settlements = <<>>
            /\ \A p \in DOMAIN participants :
                  /\ result[p].balance = 0
                  /\ result[p].debts = <<>>
                  /\ result[p].credits = <<>>

\* the result has been returned for an event without expenses
C10_Witness ==
    /\ Done
    /\ expenses = <<>>
    /\ DOMAIN result = Participants

\* ---------------------------------------------------------------- inputs of the minimizer

\* balances a caller may hand to the minimizer: sub-cent noise, single cents,
\* larger whole-cent values and values halfway between two cents
BalanceValues ==
    {-60000, -40000, -25000, -20000, -10000, -5000, 0, 5000, 10000, 20000, 30000, 40000}

\* the map holding the values v[1], v[2], ... under the ids 1, 2, ... in this order
BalanceMap(v) == [n \in DOMAIN v |-> Entry(n, v[n])]

\* ------------------------------------------------ the minimizer on its own

InitMin ==
    /\ \E len \in 0..MaxBalances : \E v \in [1..len -> BalanceValues] :
          balances = BalanceMap(v)
    /\ participants = {}
    /\ families = NoFamilies
    /\ family_map = NoFamilyMap
    /\ expenses = <<>>
    /\ debtors = <<>>
    /\ creditors = <<>>
    /\ i = 0
    /\ j = 0
    /\ settlements = <<>>
    /\ result = NoResult
    /\ err = "none"
    /\ pc = "minimize"
    /\ steps = 0
    /\ previous = <<>>
    /\ participant_rows = NoResult
    /\ expense_rows = <<>>
    /\ settlement_rows = <<>>
    /\ family_rows = NoFamilies
    /\ fsm = <<>>
    /\ keyboards = {}
    /\ notified = <<>>

\* lines 300-310: partition, sort, reset the pointers
Partition ==
    /\ pc = "minimize"
    /\ SetLocals(MinimizeStart(balances))
    /\ steps' = 0
    /\ pc' = "loop"
    /\ UNCHANGED <<participants, families, family_map, expenses, balances, result, err>>
    /\ UNCHANGED <<previous, participant_rows, expense_rows>>
    /\ UNCHANGED <<settlement_rows, family_rows, fsm, keyboards, notified>>

\* lines 312-333: one pass through the loop body
Match ==
    /\ pc = "loop"
    /\ LoopCond(Locals)
    /\ SetLocals(MatchStep(Locals))
    /\ steps' = steps + 1
    /\ UNCHANGED <<participants, families, family_map, expenses, balances, result, err, pc>>
    /\ UNCHANGED <<previous, participant_rows, expense_rows>>
    /\ UNCHANGED <<settlement_rows, family_rows, fsm, keyboards, notified>>

\* line 335
ReturnSettlements ==
    /\ pc = "loop"
    /\ ~LoopCond(Locals)
    /\ pc' = "returned"
    /\ UNCHANGED <<participants, families, family_map, expenses, balances,
                   debtors, creditors, i, j, settlements, result, err>>
    /\ UNCHANGED <<steps, previous, participant_rows, expense_rows>>
    /\ UNCHANGED <<settlement_rows, family_rows, fsm, keyboards, notified>>

NextMin == Partition \/ Match \/ ReturnSettlements

SpecMin == InitMin /\ [][NextMin]_vars

\* ------------------------------------------------------ settlement claims

Returned == pc = "returned"

NonzeroKeys(b) == {b[n].pid : n \in {m \in 1..Len(b) : b[m].bal # 0}}

DebtorKeys(b) == {b[n].pid : n \in {m \in 1..Len(b) : b[m].bal < 0}}

CreditorKeys(b) == {b[n].pid : n \in {m \in 1..Len(b) : b[m].bal > 0}}

WholeCents(b) == \A n \in 1..Len(b) : b[n].bal % Cent = 0

\* what p pays / receives over a list of transfers
RECURSIVE Paid(_, _)
Paid(s, p) ==
    IF s = <<>> THEN 0
    ELSE (IF s[1].debtor = p THEN s[1].amount ELSE 0) + Paid(Tail(s), p)

RECURSIVE Received(_, _)
Received(s, p) ==
    IF s = <<>> THEN 0
    ELSE (IF s[1].creditor = p THEN s[1].amount ELSE 0) + Received(Tail(s), p)

\* the balance of p after the transfers s are carried out:
\* debtor += amount, creditor -= amount
Applied(b, s, p) == DictGet(b, p, 0) + Paid(s, p) - Received(s, p)

\* C1 as stated: for a balance map summing to zero, carrying out the emitted
\* transfers leaves every balance within 0.01 of zero.
C1_AllWithinOneCent ==
    (Returned /\ SumBal(balances) = 0) =>
        \A p \in DictKeys(balances) : Abs(Applied(balances, settlements, p)) <= Cent

\* C1 amended: for a balance map of whole-cent values summing to zero, carrying
\* out the emitted transfers leaves every debtor within 0.01 x (number of
\* creditors) of zero and every creditor within 0.01 x (number of debtors),
\* never past zero; each unit of the remainder is a one-cent step that the
\* noise floor discarded.
C1_ResidueBoundedByDiscards ==
    (Returned /\ SumBal(balances) = 0 /\ WholeCents(balances)) =>
        \A p \in DictKeys(balances) :
            LET before == DictGet(balances, p, 0)
                after == Applied(balances, settlements, p)
            IN  /\ before < 0 =>
                    /\ after <= 0
                    /\ -after <= Cent * Cardinality(CreditorKeys(balances))
                /\ before > 0 =>
                    /\ after >= 0
                    /\ after <= Cent * Cardinality(DebtorKeys(balances))
                /\ before = 0 => after = 0

\* a whole-cent zero-sum map for which transfers are emitted and a remainder
\* of more than one cent is still left with one participant
C1_Witness ==
    /\ Returned
    /\ SumBal(balances) = 0
    /\ WholeCents(balances)
    /\ Len(settlements) >= 1
    /\ \E p \in DictKeys(balances) : Abs(Applied(balances, settlements, p)) > Cent

\* C2 as stated: with k participants holding a nonzero balance, at most k-1
\* transfers are emitted.
C2_AtMostKMinusOne ==
    Returned => Len(settlements) <= Cardinality(NonzeroKeys(balances)) - 1

\* C2 amended: with k >= 1 participants holding a nonzero balance at most k-1
\* transfers are emitted, and none when k = 0.
C2_AtMostKMinusOneOrNone ==
    Returned =>
        LET k == Cardinality(NonzeroKeys(balances))
        IN  IF k >= 1 THEN Len(settlements) <= k - 1 ELSE Len(settlements) = 0

\* three nonzero balances settled with exactly two transfers
C2_Witness ==
    /\ Returned
    /\ Cardinality(NonzeroKeys(balances)) = 3
    /\ Len(settlements) = 2

\* the sum of the balances of the participants in G
RECURSIVE SumOver(_, _)
SumOver(b, G) ==
    IF b = <<>> THEN 0
    ELSE (IF b[1].pid \in G THEN b[1].bal ELSE 0) + SumOver(Tail(b), G)

\* the largest number of groups, each summing to zero, into which the
\* participants S can be divided (0 if S is empty)
RECURSIVE MaxZeroGroups(_, _)
MaxZeroGroups(b, S) ==
    IF S = {} THEN 0
    ELSE LET x == CHOOSE y \in S : \A z \in S : y <= z
             groups == {G \in SUBSET S : x \in G /\ SumOver(b, G) = 0}
             parts == {1 + MaxZeroGroups(b, S \ G) : G \in groups}
         IN  CHOOSE n \in parts : \A m \in parts : m <= n

\* The fewest transfers that bring every balance of a zero-sum map to zero.
\* The participants joined by the transfers of such a list fall into connected
\* groups; each group sums to zero and needs at least (size - 1) transfers,
\* and (size - 1) transfers along a chain do settle a zero-sum group.
FewestTransfers(b) ==
    Cardinality(NonzeroKeys(b)) - MaxZeroGroups(b, NonzeroKeys(b))

\* C3 as stated: for a balance map summing to zero no list of transfers that
\* brings every balance to zero is shorter than the emitted one.
C3_FewestPossible ==
    (Returned /\ SumBal(balances) = 0) =>
        Len(settlements) <= FewestTransfers(balances)

\* C3 amended: for a balance map summing to zero in which at most four
\* participants hold a nonzero balance, no list of transfers that brings
\* every balance to zero is shorter than the emitted one.
C3_FewestUpToFour ==
    (Returned /\ SumBal(balances) = 0 /\ Cardinality(NonzeroKeys(balances)) <= 4) =>
        Len(settlements) <= FewestTransfers(balances)

\* four nonzero balances forming two zero-sum pairs, settled pair by pair
C3_Witness ==
    /\ Returned
    /\ SumBal(balances) = 0
    /\ Cardinality(NonzeroKeys(balances)) = 4
    /\ FewestTransfers(balances) = 2
    /\ Len(settlements) = 2

\* C8: every emitted transfer is of more than 0.01, and the map holding only
\* +0.005 and -0.005 yields no transfer.
C8_NoiseFloor ==
    /\ \A n \in 1..Len(settlements) : settlements[n].amount > Cent
    /\ (Returned /\ balances = <<Entry(1, 5000), Entry(2, -5000)>>) => settlements = <<>>

\* the half-cent pair has been matched and nothing was emitted
C8_Witness ==
    /\ Returned
    /\ balances = <<Entry(1, 5000), Entry(2, -5000)>>
    /\ i = 1
    /\ j = 1
    /\ settlements = <<>>

\* ------------------------------------------ calculate_debts called again

\* what a call of calculate_debts leaves with its caller
Outcome == [balances |-> balances, settlements |-> settlements,
            result |-> result, err |-> err]

\* a further call on the same rows (cmd_my_debts after callback_calculate_event):
\* the four loads return the same snapshot; the locals of the finished call
\* are garbage until the new call assigns them
Recalculate ==
    /\ pc \in {"done", "raised"}
    /\ Len(previous) < MaxRecalculations
    /\ previous' = Append(previous, Outcome)
    /\ pc' = "balances"
    /\ UNCHANGED <<participants, families, family_map, expenses, balances,
                   debtors, creditors, i, j, settlements, result, err,
                   steps, participant_rows, expense_rows>>
    /\ UNCHANGED <<settlement_rows, family_rows, fsm, keyboards, notified>>

NextTwice == Balance \/ Minimize \/ Assemble \/ Recalculate

SpecTwice == Init /\ [][NextTwice]_vars

NoRows == [p \in {} |-> 0]

GetAllEventExpenses(rows) == [k \in DOMAIN rows |-> rows[k].expense]

\* _get_event_expenses: the expenses with is_deleted == False
RECURSIVE GetEventExpenses(_)
GetEventExpenses(rows) ==
    IF rows = <<>> THEN <<>>
    ELSE (IF rows[1].is_deleted THEN <<>> ELSE <<rows[1].expense>>)
         \o GetEventExpenses(Tail(rows))

\* rows of participants with is_active == True
ActiveRows(rows) == {p \in DOMAIN rows : rows[p].is_active}

\* _get_event_participants: {p.id: p.display_name} of the active participants
GetEventParticipants(rows) == [p \in ActiveRows(rows) |-> NameOf(p)]

\* _participant_has_expenses: a non-deleted expense paid by p
ParticipantHasExpenses(rows, p) ==
    \E k \in 1..Len(rows) : rows[k].expense.payer_id = p /\ ~rows[k].is_deleted

\* what create_expense is called with: the payer and the targets are active
\* participants, the split is equal among one or two of them or names one
\* participant with the whole amount
CreatedSplitLists(active) ==
    UNION {[1..l -> {Split(q, 0, NoneVal, NoneVal) : q \in active}] : l \in 1..MaxCreatedSplits}

CreatedExpenses(active) ==
    {Expense(payer, 100 * Unit, "equal", splits) :
        payer \in active, splits \in CreatedSplitLists(active)}
    \cup {Expense(payer, 100 * Unit, "specific", <<Split(q, 0, 100 * Unit, NoneVal)>>) :
        payer \in active, q \in active}

InitDb ==
    /\ participant_rows = NoRows
    /\ expense_rows = <<>>
    /\ participants = NoRows
    /\ families = NoFamilies
    /\ family_map = NoFamilyMap
    /\ expenses = <<>>
    /\ balances = <<>>
    /\ debtors = <<>>
    /\ creditors = <<>>
    /\ i = 0
    /\ j = 0
    /\ settlements = <<>>
    /\ result = NoResult
    /\ err = "none"
    /\ pc = "idle"
    /\ steps = 0
    /\ previous = <<>>
    /\ settlement_rows = <<>>
    /\ family_rows = NoFamilies
    /\ fsm = <<>>
    /\ keyboards = {}
    /\ notified = <<>>

\* add_participant for the Telegram user u: an active row is returned as it
\* is, a soft-deleted row is reactivated, otherwise a row is inserted
AddParticipant ==
    /\ pc = "idle"
    /\ \E u \in 1..MaxParticipantRows :
          /\ u \in DOMAIN participant_rows => ~participant_rows[u].is_active
          /\ participant_rows' =
                [q \in DOMAIN participant_rows \cup {u} |->
                    IF q = u THEN ParticipantRow(TRUE) ELSE participant_rows[q]]
    /\ UNCHANGED <<participants, families, family_map, expenses, balances,
                   debtors, creditors, i, j, settlements, result, err, pc,
                   steps, previous, expense_rows>>
    /\ UNCHANGED <<settlement_rows, family_rows, fsm, keyboards, notified>>

\* delete_participant: refused for a missing or inactive participant and for
\* the payer of a non-deleted expense (no family exists, so nobody is a head)
DeleteParticipant ==
    /\ pc = "idle"
    /\ \E p \in ActiveRows(participant_rows) :
          /\ ~ParticipantHasExpenses(expense_rows, p)
          /\ participant_rows' = [participant_rows EXCEPT ![p] = ParticipantRow(FALSE)]
    /\ UNCHANGED <<participants, families, family_map, expenses, balances,
                   debtors, creditors, i, j, settlements, result, err, pc,
                   steps, previous, expense_rows>>
    /\ UNCHANGED <<settlement_rows, family_rows, fsm, keyboards, notified>>

\* create_expense: the expense and its splits are inserted as given
CreateExpense ==
    /\ pc = "idle"
    /\ Len(expense_rows) < MaxExpenseRows
    /\ \E e \in CreatedExpenses(ActiveRows(participant_rows)) :
          expense_rows' = Append(expense_rows, ExpenseRow(e, FALSE))
    /\ UNCHANGED <<participants, families, family_map, expenses, balances,
                   debtors, creditors, i, j, settlements, result, err, pc,
                   steps, previous, participant_rows>>
    /\ UNCHANGED <<settlement_rows, family_rows, fsm, keyboards, notified>>

\* delete_expense: get_expense finds only non-deleted expenses
DeleteExpense ==
    /\ pc = "idle"
    /\ \E k \in 1..Len(expense_rows) :
          /\ ~expense_rows[k].is_deleted
          /\ expense_rows' = [expense_rows EXCEPT ![k].is_deleted = TRUE]
    /\ UNCHANGED <<participants, families, family_map, expenses, balances,
                   debtors, creditors, i, j, settlements, result, err, pc,
                   steps, previous, participant_rows>>
    /\ UNCHANGED <<settlement_rows, family_rows, fsm, keyboards, notified>>

\* calculate_debts, lines 45-52: the four loads
Load ==
    /\ pc = "idle"
    /\ expenses' = GetEventExpenses(expense_rows)
    /\ participants' = GetEventParticipants(participant_rows)
    /\ families' = NoFamilies
    /\ family_map' = BuildFamilyMap(NoFamilies)
    /\ pc' = "balances"
    /\ UNCHANGED <<balances, debtors, creditors, i, j, settlements, result, err,
                   steps, previous, participant_rows, expense_rows>>
    /\ UNCHANGED <<settlement_rows, family_rows, fsm, keyboards, notified>>

NextDb ==
    \/ AddParticipant
    \/ DeleteParticipant
    \/ CreateExpense
    \/ DeleteExpense
    \/ Load
    \/ Balance
    \/ Minimize
    \/ Assemble

SpecDb == InitDb /\ [][NextDb]_vars

\* ------------------------------------------------- claims about the tables

\* the k-th smallest element of a set of positions
Nth(S, k) == CHOOSE n \in S : Cardinality({m \in S : m < n}) = k - 1

PositionsAsDebtor(p) == {n \in 1..Len(settlements) : settlements[n].debtor = p}

PositionsAsCreditor(p) == {n \in 1..Len(settlements) : settlements[n].creditor = p}

BalanceEntries(p) == {n \in 1..Len(balances) : balances[n].pid = p}

\* C12: the returned map has exactly one entry per active participant; the
\* entry holds the computed balance (0 if the balance pass produced none),
\* as debts exactly the emitted transfers with the participant as debtor, in
\* emission order, each with the creditor's id, name and amount, and as
\* credits exactly the emitted transfers with the participant as creditor,
\* each with the debtor's id, name and amount.
C12_EntryPerActiveParticipant ==
    Done =>
        /\ DOMAIN result = ActiveRows(participant_rows)
        /\ \A p \in DOMAIN result :
              LET r == result[p]
                  D == PositionsAsDebtor(p)
                  C == PositionsAsCreditor(p)
              IN  /\ BalanceEntries(p) = {} => r.balance = 0
                  /\ \A n \in BalanceEntries(p) : r.balance = balances[n].bal
                  /\ Len(r.debts) = Cardinality(D)
                  /\ \A k \in 1..Len(r.debts) :
                        LET t == settlements[Nth(D, k)]
                        IN  r.debts[k] = [to_id |-> t.creditor,
                                          to_name |-> participants[t.creditor],
                                          amount |-> t.amount]
                  /\ Len(r.credits) = Cardinality(C)
                  /\ \A k \in 1..Len(r.credits) :
                        LET t == settlements[Nth(C, k)]
                        IN  r.credits[k] = [from_id |-> t.debtor,
                                            from_name |-> participants[t.debtor],
                                            amount |-> t.amount]

\* a result in which one participant pays two others
C12_Witness ==
    /\ Done
    /\ DOMAIN result = ActiveRows(participant_rows)
    /\ \E p \in DOMAIN result :
          /\ Len(result[p].debts) = 2
          /\ result[p].debts[1].to_id # result[p].debts[2].to_id
          /\ result[result[p].debts[1].to_id].credits = <<[from_id |-> p, from_name |-> NameOf(p),
                                                           amount |-> result[p].debts[1].amount]>>

\* C13: whatever add_participant, create_expense, delete_expense and
\* delete_participant did before, every participant with a nonzero balance
\* and every debtor and creditor of an emitted transfer is an active
\* participant, and result assembly never misses a name.
C13_OnlyActiveParticipants ==
    /\ BalancesReturned =>
          \A n \in 1..Len(balances) :
              balances[n].bal # 0 => balances[n].pid \in ActiveRows(participant_rows)
    /\ pc \in {"assemble", "done"} =>
          \A n \in 1..Len(settlements) :
              /\ settlements[n].debtor \in ActiveRows(participant_rows)
              /\ settlements[n].creditor \in ActiveRows(participant_rows)
    /\ ~(pc = "raised" /\ err = "KeyError")

\* the expenses that were created and never deleted, in creation order
Kept == LET live == {k \in 1..Len(expense_rows) : ~expense_rows[k].is_deleted}
        IN  [k \in 1..Cardinality(live) |-> expense_rows[Nth(live, k)].expense]

\* C14: after any creations and deletions of expenses, the computation gives
\* the balances, the transfers and the result it gives for the expenses that
\* were never deleted alone; a deleted expense adds no credit and no debit.
C14_DeletedExpensesIgnored ==
    LET r == CalculateBalances(Kept, NoFamilies, NoFamilyMap)
        m == MinimizeTransactions(r.balances)
    IN  /\ BalancesReturned => (r.err = "none" /\ balances = r.balances)
        /\ pc \in {"assemble", "done"} => settlements = m.settlements
        /\ Done => result = BuildResult(participants, r.balances, m.settlements)
        /\ (BalancesReturned /\ \A k \in 1..Len(expense_rows) : expense_rows[k].is_deleted)
              => balances = <<>>

\* a result computed while one expense is soft-deleted and another is not
C14_Witness ==
    /\ Done
    /\ Len(expense_rows) = 2
    /\ expense_rows[1].is_deleted
    /\ ~expense_rows[2].is_deleted
    /\ expense_rows[1].expense # expense_rows[2].expense
    /\ Len(settlements) = 1

\* ------------------------------------- snapshots that may be malformed

\* targets as the columns allow them: a participant, the family, neither,
\* both, a family that is not among the families of the event
AnyTargets == Targets \cup {<<0, 0>>, <<1, 1>>, <<0, 2>>}

AnyAmounts == Amounts \cup {-90 * Unit}

AnyEntries(type) ==
    {Split(t[1], t[2], IF type = "equal" THEN NoneVal ELSE 50 * Unit, NoneVal) : t \in AnyTargets}

AnySplitLists(type) == UNION {[1..l -> AnyEntries(type)] : l \in 1..MaxShareSplits}

\* the state after the four loads when nothing vouches for the rows: one
\* expense, no family or the family {1, 2} with or without head
InitAny ==
    /\ participants = [p \in Participants |-> NameOf(p)]
    /\ \E present \in BOOLEAN, h \in {0, 1} :
          /\ ~present => h = 0
          /\ families = IF present THEN [f \in {1} |-> Family({1, 2}, h)] ELSE NoFamilies
    /\ family_map = BuildFamilyMap(families)
    /\ \E payer \in Participants, amount \in AnyAmounts, type \in SplitTypes :
          \E splits \in AnySplitLists(type) :
             expenses = <<Expense(payer, amount, type, splits)>>
    /\ balances = <<>>
    /\ debtors = <<>>
    /\ creditors = <<>>
    /\ i = 0
    /\ j = 0
    /\ settlements = <<>>
    /\ result = NoResult
    /\ err = "none"
    /\ pc = "balances"
    /\ steps = 0
    /\ previous = <<>>
    /\ participant_rows = [p \in Participants |-> ParticipantRow(TRUE)]
    /\ expense_rows = [k \in DOMAIN expenses |-> ExpenseRow(expenses[k], FALSE)]
    /\ settlement_rows = <<>>
    /\ family_rows = NoFamilies
    /\ fsm = <<>>
    /\ keyboards = {}
    /\ notified = <<>>

SpecAny == InitAny /\ [][Next]_vars

NeitherTarget(s) == s.participant_id = 0 /\ s.family_id = 0

BothTargets(s) == s.participant_id # 0 /\ s.family_id # 0

AbsentFamily(s) == s.family_id # 0 /\ s.family_id \notin DOMAIN families

Malformed ==
    \E e \in AllExpenses :
        \/ e.amount < 0
        \/ \E s \in Entries(e) : NeitherTarget(s) \/ BothTargets(s) \/ AbsentFamily(s)

\* C15: for a snapshot with a split that has neither target, a split that has
\* both, a split of a family missing from the families map, or a negative
\* amount, the balance computation ends in an error and returns no balances.
C15_MalformedRaises ==
    Malformed => ~BalancesReturned

WellFormed ==
    \A e \in AllExpenses :
        /\ e.amount > 0
        /\ \A s \in Entries(e) :
              /\ ~NeitherTarget(s)
              /\ ~BothTargets(s)
              /\ ~AbsentFamily(s)
              /\ e.split_type = "custom" =>
                    (s.share_amount # NoneVal \/ s.share_percentage # NoneVal)
              /\ e.split_type = "specific" => s.share_amount # NoneVal

\* C16: for a well-formed snapshot (one target per split, every referenced
\* family present, positive amounts, a share amount or a percentage on every
\* custom entry, a share amount on every specific entry, split lists of any
\* length including zero) the balance pass and the minimizer raise nothing.
C16_TotalOnWellFormed ==
    WellFormed => (pc # "raised" /\ err = "none")

\* -------------------------------------------- claims about the matching loop

\* the loop is about to match debtors[i] with creditors[j]
AboutToMatch == pc = "loop" /\ LoopCond(Locals)

\* the step taken is a pass through the loop body
Matching == pc = "loop" /\ steps' = steps + 1

\* what the participant owed / was owed when the loop began
OriginalDebt(p) == -DictGet(balances, p, 0)

OriginalCredit(p) == DictGet(balances, p, 0)

PointersAdvance ==
    [][Matching =>
          /\ i' = (IF debtors'[i + 1].amt < Cent THEN i + 1 ELSE i)
          /\ j' = (IF creditors'[j + 1].amt < Cent THEN j + 1 ELSE j)
          /\ i' + j' > i + j]_vars

\* the loop is left exactly when a list is exhausted
LeftWhenExhausted ==
    /\ pc = "loop" => (i <= Len(debtors) /\ j <= Len(creditors))
    /\ Returned => (i = Len(debtors) \/ j = Len(creditors))

\* C18 as stated: every pass advances the debtor pointer exactly when the
\* debtor's remainder is below 0.01 and the creditor pointer exactly when the
\* creditor's remainder is below 0.01, at least one of them; with d debtors
\* and c creditors the loop ends after at most d+c-1 passes, when a list is
\* exhausted.
C18_AtMostDPlusCMinusOne ==
    /\ PointersAdvance
    /\ [](LeftWhenExhausted /\ (Returned => steps <= Len(debtors) + Len(creditors) - 1))

\* C18 amended: the same, with at most d+c-1 passes when there is a debtor or
\* a creditor and no pass when there is neither.
C18_AtMostDPlusCMinusOneOrNone ==
    /\ PointersAdvance
    /\ [](/\ LeftWhenExhausted
          /\ (pc \in {"loop", "returned"} /\ Len(debtors) + Len(creditors) >= 1)
                => steps <= Len(debtors) + Len(creditors) - 1
          /\ (pc \in {"loop", "returned"} /\ Len(debtors) + Len(creditors) = 0)
                => steps = 0)

\* three debtors and two creditors matched in 3 + 2 - 1 passes
C18_Witness ==
    /\ Returned
    /\ Len(debtors) = 3
    /\ Len(creditors) = 2
    /\ steps = 4

\* C19: the amount of a pass is min(remaining debt, remaining credit) rounded
\* to a multiple of 0.01, to the nearest and to the even one when halfway;
\* every emitted amount is a multiple of 0.01 at most 0.005 away from the
\* minimum it came from.
C19_RoundedMinimum ==
    /\ [](\A n \in 1..Len(settlements) : settlements[n].amount % Cent = 0)
    /\ [][Matching =>
            LET d == debtors[i + 1].amt
                c == creditors[j + 1].amt
                low == IF d <= c THEN d ELSE c
                a == d - debtors'[i + 1].amt
            IN  /\ c - creditors'[j + 1].amt = a
                /\ a % Cent = 0
                /\ 2 * Abs(a - low) <= Cent
                /\ 2 * Abs(a - low) = Cent => (a \div Cent) % 2 = 0
                /\ settlements' # settlements =>
                      settlements' = Append(settlements,
                          Transfer(debtors[i + 1].pid, creditors[j + 1].pid, a))]_vars

\* a debt of 0.025 met by a credit of 0.04: 0.02 is transferred
C19_Witness ==
    /\ Returned
    /\ balances = <<Entry(1, -25000), Entry(2, 40000)>>
    /\ settlements = <<Transfer(1, 2, 20000)>>
    /\ debtors[1].amt = 5000

\* C20: a pass whose rounded amount is 0.01 or less records no transfer and
\* still takes the amount off the debtor's and the creditor's remainder; the
\* amount of a recorded transfer is computed from the remainders as they are
\* then, so nothing discarded comes back, and what a participant has paid or
\* received plus the remainder never exceeds the original debt or credit.
C20_DiscardedNotCarried ==
    /\ [][Matching =>
            LET d == debtors[i + 1]
                c == creditors[j + 1]
                a == RoundHalfEven(IF d.amt <= c.amt THEN d.amt ELSE c.amt, Cent)
            IN  /\ debtors'[i + 1].amt = d.amt - a
                /\ creditors'[j + 1].amt = c.amt - a
                /\ a <= Cent => settlements' = settlements
                /\ a > Cent => settlements' = Append(settlements, Transfer(d.pid, c.pid, a))]_vars
    /\ [](pc \in {"loop", "returned"} =>
            /\ \A n \in 1..Len(debtors) :
                  Paid(settlements, debtors[n].pid) + debtors[n].amt
                      <= OriginalDebt(debtors[n].pid)
            /\ \A n \in 1..Len(creditors) :
                  Received(settlements, creditors[n].pid) + creditors[n].amt
                      <= OriginalCredit(creditors[n].pid))

\* 0.03 is transferred, the cent left of the first debt is dropped against
\* the second creditor, and the transfer that follows is of 0.02 only
C20_Witness ==
    /\ Returned
    /\ balances = <<Entry(1, -40000), Entry(2, -20000), Entry(3, 30000), Entry(4, 30000)>>
    /\ steps = 3
    /\ settlements = <<Transfer(1, 3, 30000), Transfer(2, 4, 20000)>>
    /\ debtors[1].amt = 0
    /\ creditors[2].amt = 0

\* ---------------------------------------------------------------------
\* Near-zero balances
\* ---------------------------------------------------------------------

\* the participants whose input balance is zero or below 0.01 in magnitude
NearZeroKeys(b) == {b[n].pid : n \in {m \in 1..Len(b) : Abs(b[m].bal) < Cent}}

\* C21: a participant whose balance is zero or has magnitude below 0.01 is
\* the debtor or creditor of no emitted transfer, at any point of the loop
\* and in the list returned, whatever the other balances are.
C21_NearZeroNeverTransfers ==
    pc \in {"loop", "returned"} =>
        \A n \in 1..Len(settlements) :
            /\ settlements[n].debtor \notin NearZeroKeys(balances)
            /\ settlements[n].creditor \notin NearZeroKeys(balances)

\* a debtor of 0.005 was matched and passed over (its pointer moved on),
\* while the other balances produced transfers
C21_Witness ==
    /\ Returned
    /\ Len(settlements) >= 1
    /\ \E n \in 1..Len(debtors) :
          /\ n <= i
          /\ debtors[n].pid \in NearZeroKeys(balances)
    /\ \E n \in 1..Len(creditors) :
          /\ n <= j
          /\ creditors[n].pid \in NearZeroKeys(balances)

\* ---------------------------------------------------------------------
\* Order of the emitted list
\* ---------------------------------------------------------------------

\* the place of p in the iteration order of the balance map
PositionOf(b, p) == CHOOSE n \in 1..Len(b) : b[n].pid = p

\* p comes no later than q: a larger original magnitude first, and the
\* iteration order of the balance map among equal magnitudes
NoLaterThan(p, q) ==
    \/ Abs(DictGet(balances, p, 0)) > Abs(DictGet(balances, q, 0))
    \/ /\ Abs(DictGet(balances, p, 0)) = Abs(DictGet(balances, q, 0))
       /\ PositionOf(balances, p) <= PositionOf(balances, q)

\* C22: in the emitted list the debtors appear in non-increasing order of
\* their original debt and the creditors in non-increasing order of their
\* original credit; among participants of equal magnitude the order is the
\* iteration order of the balance map.
C22_EmittedInSortedOrder ==
    pc \in {"loop", "returned"} =>
        \A n, m \in 1..Len(settlements) :
            n < m =>
                /\ NoLaterThan(settlements[n].debtor, settlements[m].debtor)
                /\ NoLaterThan(settlements[n].creditor, settlements[m].creditor)

\* two debtors of equal debt and two creditors of equal credit, each paying
\* or receiving in the order of the balance map
C22_Witness ==
    /\ Returned
    /\ Len(settlements) = 2
    /\ settlements[1].debtor # settlements[2].debtor
    /\ settlements[1].creditor # settlements[2].creditor
    /\ OriginalDebt(settlements[1].debtor) = OriginalDebt(settlements[2].debtor)
    /\ OriginalCredit(settlements[1].creditor) = OriginalCredit(settlements[2].creditor)
    /\ PositionOf(balances, settlements[1].debtor) < PositionOf(balances, settlements[2].debtor)
    /\ PositionOf(balances, settlements[1].creditor) < PositionOf(balances, settlements[2].creditor)

\* ---------------------------------------------------------------------
\* Shape of a transfer
\* ---------------------------------------------------------------------

\* C28: every transfer of the returned list goes from a participant whose
\* input balance is negative to a different participant whose input balance
\* is positive, and no ordered (debtor, creditor) pair occurs in two transfers.
C28_DebtorToCreditorOnce ==
    Returned =>
        /\ \A n \in 1..Len(settlements) :
              /\ DictGet(balances, settlements[n].debtor, 0) < 0
              /\ DictGet(balances, settlements[n].creditor, 0) > 0
              /\ settlements[n].debtor # settlements[n].creditor
        /\ \A n, m \in 1..Len(settlements) :
              (/\ settlements[n].debtor = settlements[m].debtor
               /\ settlements[n].creditor = settlements[m].creditor) => n = m

\* three transfers, one debtor paying two creditors and one creditor paid
\* by two debtors
C28_Witness ==
    /\ Returned
    /\ Len(settlements) = 3
    /\ \E n, m \in 1..3 :
          /\ n # m
          /\ settlements[n].debtor = settlements[m].debtor
    /\ \E n, m \in 1..3 :
          /\ n # m
          /\ settlements[n].creditor = settlements[m].creditor

\* ---------------------------------------------------------------------
\* The minimizer on balances whose cents end in a half or a quarter
\* ---------------------------------------------------------------------

\* balances whose rounding goes up (0.015 -> 0.02, 0.035 -> 0.04,
\* 0.0175 -> 0.02) as well as down (0.0125 -> 0.01)
TieValues ==
    {-35000, -20000, -17500, -15000, -12500, 0, 15000, 17500, 20000, 35000, 50000}

InitTies ==
    /\ \E len \in 0..MaxTieBalances : \E v \in [1..len -> TieValues] :
          balances = BalanceMap(v)
    /\ participants = {}
    /\ families = NoFamilies
    /\ family_map = NoFamilyMap
    /\ expenses = <<>>
    /\ debtors = <<>>
    /\ creditors = <<>>
    /\ i = 0
    /\ j = 0
    /\ settlements = <<>>
    /\ result = NoResult
    /\ err = "none"
    /\ pc = "minimize"
    /\ steps = 0
    /\ previous = <<>>
    /\ participant_rows = NoResult
    /\ expense_rows = <<>>
    /\ settlement_rows = <<>>
    /\ family_rows = NoFamilies
    /\ fsm = <<>>
    /\ keyboards = {}
    /\ notified = <<>>

SpecTies == InitTies /\ [][NextMin]_vars

\* C29: the amounts a debtor pays over all emitted transfers exceed the
\* magnitude of its balance by at most 0.005, and the amounts a creditor
\* receives exceed its balance by at most 0.005.
C29_OverpaidAtMostHalfCent ==
    pc \in {"loop", "returned"} =>
        \A n \in 1..Len(balances) :
            LET p == balances[n].pid
                bal == balances[n].bal
            IN  /\ bal < 0 => 2 * (Paid(settlements, p) + bal) <= Cent
                /\ bal > 0 => 2 * (Received(settlements, p) - bal) <= Cent

\* a debtor that pays two creditors and ends 0.005 over its debt, the
\* second amount being 0.015 rounded up to 0.02
C29_Witness ==
    /\ Returned
    /\ \E p \in DebtorKeys(balances) :
          /\ Cardinality(PositionsAsDebtor(p)) = 2
          /\ 2 * (Paid(settlements, p) - OriginalDebt(p)) = Cent
    /\ \E p \in CreditorKeys(balances) :
          2 * (Received(settlements, p) - OriginalCredit(p)) = Cent

\* ---------------------------------------------------------------------
\* Families without a head
\* ---------------------------------------------------------------------

\* a family-targeted entry whose family has no head
Headless(s) ==
    /\ s.participant_id = 0
    /\ s.family_id \in DOMAIN families
    /\ families[s.family_id].family_head_id = 0

HeadlessEntries(e) == {k \in 1..Len(e.splits) : Headless(e.splits[k])}

\* what the entries of e other than the headless ones charge to p
RECURSIVE HeadedCharges(_, _, _)
HeadedCharges(e, k, p) ==
    IF k > Len(e.splits) THEN 0
    ELSE (IF ~Headless(e.splits[k]) /\ ChargedTo(e.splits[k]) = p
          THEN Charge(e, e.splits[k], FALSE) ELSE 0)
         + HeadedCharges(e, k + 1, p)

RECURSIVE CreditsLessHeadedCharges(_, _, _)
CreditsLessHeadedCharges(es, k, p) ==
    IF k > Len(es) THEN 0
    ELSE (IF Owner(es[k].payer_id) = p THEN es[k].amount ELSE 0)
         - HeadedCharges(es[k], 1, p)
         + CreditsLessHeadedCharges(es, k + 1, p)

\* C26: a family-targeted entry whose family has no head debits nobody under
\* the equal, custom and specific policies alike: every balance is what the
\* payers were credited less what the other entries charge, and an expense
\* made of such entries only leaves its payer's credit of the full amount
\* as the one balance.
C26_HeadlessFamilyDebitsNobody ==
    BalancesReturned =>
        /\ \A p \in Participants :
              DictGet(balances, p, 0) = CreditsLessHeadedCharges(expenses, 1, p)
        /\ \A n \in 1..Len(balances) : balances[n].pid \in Participants
        /\ (/\ Len(expenses) = 1
            /\ Cardinality(HeadlessEntries(expenses[1])) = Len(expenses[1].splits))
           => balances = <<Entry(Owner(expenses[1].payer_id), expenses[1].amount)>>

\* an equal expense split between a participant and a family without head:
\* the payer holds the full amount, the participant owes its half, and the
\* family's half is charged to nobody
C26_Witness ==
    /\ BalancesReturned
    /\ Len(expenses) = 1
    /\ expenses[1].split_type = "equal"
    /\ Len(expenses[1].splits) = 2
    /\ Cardinality(HeadlessEntries(expenses[1])) = 1
    /\ \E k \in 1..2 :
          /\ TargetsParticipant(expenses[1].splits[k])
          /\ Owner(expenses[1].splits[k].participant_id) # Owner(expenses[1].payer_id)
    /\ Len(balances) = 2
    /\ balances[1].bal = expenses[1].amount
    /\ 2 * balances[2].bal = -expenses[1].amount

\* the same under the other policies: the expense has an entry of a family
\* without head and balances were returned
HeadlessUnder(type) ==
    /\ BalancesReturned
    /\ Len(expenses) = 1
    /\ expenses[1].split_type = type
    /\ HeadlessEntries(expenses[1]) # {}
    /\ Cardinality(HeadlessEntries(expenses[1])) < Len(expenses[1].splits)

HeadlessUnderCustom == HeadlessUnder("custom")

HeadlessUnderSpecific == HeadlessUnder("specific")

\* ---------------------------------------------------------------------
\* Members a head stands in for
\* ---------------------------------------------------------------------

\* p is mapped to a family with a head other than p and heads no family
RepresentedMember(p) ==
    /\ p \in DOMAIN family_map
    /\ family_map[p].family_head_id \notin {0, p}
    /\ \A f \in DOMAIN families : families[f].family_head_id # p

\* C27: a participant mapped in the family map to a family with a head other
\* than themself, and head of no family, receives no credit and no debit:
\* they have no entry in the balance map, are reported with balance 0, and
\* are debtor or creditor of no transfer.
C27_RepresentedMemberHasNoBalance ==
    \A p \in Participants :
        RepresentedMember(p) =>
            /\ BalancesReturned => p \notin DictKeys(balances)
            /\ pc \in {"assemble", "done"} =>
                  \A n \in 1..Len(settlements) :
                      /\ settlements[n].debtor # p
                      /\ settlements[n].creditor # p
            /\ (Done /\ p \in DOMAIN result) =>
                  /\ result[p].balance = 0
                  /\ result[p].debts = <<>>
                  /\ result[p].credits = <<>>

\* a member pays an expense of which it is itself a target; its head holds
\* the balance and the transfers, the member is reported with 0
C27_Witness ==
    /\ Done
    /\ Len(expenses) = 1
    /\ Len(settlements) >= 1
    /\ \E p \in DOMAIN result :
          /\ RepresentedMember(p)
          /\ expenses[1].payer_id = p
          /\ \E k \in 1..Len(expenses[1].splits) : expenses[1].splits[k].participant_id = p
          /\ result[p].balance = 0
          /\ result[family_map[p].family_head_id].credits # <<>>

\* ---------------------------------------------------------------------
\* save_settlements and the table debt_settlements
\* ---------------------------------------------------------------------

Events == {1, 2}

\* DebtSettlement(event_id=, debtor_id=, creditor_id=, amount=, settled=False)
DebtSettlement(event_id, t) ==
    [event_id |-> event_id, debtor_id |-> t.debtor, creditor_id |-> t.creditor,
     amount |-> t.amount, settled |-> FALSE]

\* the settlement lists handed to save_settlements
SavedTransfers == {Transfer(2, 1, 100 * Unit), Transfer(3, 1, 50 * Unit)}

SavedLists == UNION {[1..len -> SavedTransfers] : len \in 0..MaxSavedTransfers}

\* for debtor_id, creditor_id, amount in settlements: session.add(DebtSettlement(...))
NewSettlements(event_id, s) == [n \in 1..Len(s) |-> DebtSettlement(event_id, s[n])]

\* the rows of an event, in id order
RECURSIVE RowsOfEvent(_, _)
RowsOfEvent(rows, event_id) ==
    IF rows = <<>> THEN <<>>
    ELSE (IF rows[1].event_id = event_id THEN <<rows[1]>> ELSE <<>>)
         \o RowsOfEvent(Tail(rows), event_id)

InitSave ==
    /\ participants = {}
    /\ families = NoFamilies
    /\ family_map = NoFamilyMap
    /\ expenses = <<>>
    /\ balances = <<>>
    /\ debtors = <<>>
    /\ creditors = <<>>
    /\ i = 0
    /\ j = 0
    /\ settlements = <<>>
    /\ result = NoResult
    /\ err = "none"
    /\ pc = "idle"
    /\ steps = 0
    /\ previous = <<>>
    /\ participant_rows = NoResult
    /\ expense_rows = <<>>
    /\ settlement_rows = <<>>
    /\ family_rows = NoFamilies
    /\ fsm = <<>>
    /\ keyboards = {}
    /\ notified = <<>>

\* save_settlements(event_id, s): the select of the event's rows (lines
\* 106-109) reads and changes nothing; then one row is added per transfer
SaveSettlements(event_id, s) ==
    /\ pc = "idle"
    /\ Len(settlement_rows) + Len(s) <= MaxSettlementRows
    /\ settlement_rows' = settlement_rows \o NewSettlements(event_id, s)
    /\ UNCHANGED <<participants, families, family_map, expenses, balances,
                   debtors, creditors, i, j, settlements, result, err, pc>>
    /\ UNCHANGED <<steps, previous, participant_rows, expense_rows>>
    /\ UNCHANGED <<family_rows, fsm, keyboards, notified>>

NextSave == \E event_id \in Events : \E s \in SavedLists : SaveSettlements(event_id, s)

SpecSave == InitSave /\ [][NextSave]_vars

\* C23 as stated: after save_settlements(event, S) the stored records of the
\* event are exactly those of S, each with the settled flag unset, so that
\* calling it twice with the same list leaves one record per transfer.
C23_SaveReplaces ==
    [][\A event_id \in Events : \A s \in SavedLists :
          SaveSettlements(event_id, s) =>
              RowsOfEvent(settlement_rows', event_id) = NewSettlements(event_id, s)]_vars

\* what the code does: the rows of the call are added behind the rows the
\* event had, which stay as they were
SaveAppends ==
    [][\A event_id \in Events : \A s \in SavedLists :
          SaveSettlements(event_id, s) =>
              RowsOfEvent(settlement_rows', event_id)
                  = RowsOfEvent(settlement_rows, event_id) \o NewSettlements(event_id, s)]_vars

\* the same one-transfer list saved twice for an event: two rows
SavedTwice ==
    RowsOfEvent(settlement_rows, 1)
        = NewSettlements(1, <<Transfer(2, 1, 100 * Unit), Transfer(2, 1, 100 * Unit)>>)

\* ---------------------------------------------------------------------
\* The calculate and send-notification callbacks of one user
\* ---------------------------------------------------------------------

\* the events of the user: in event 1 participant 1 paid 100.00 for 1 and 2,
\* in event 2 participant 3 paid 300.00 for 3 and 4
EventParticipants(event_id) ==
    IF event_id = 1 THEN [p \in {1, 2} |-> NameOf(p)] ELSE [p \in {3, 4} |-> NameOf(p)]

EventExpenses(event_id) ==
    IF event_id = 1
    THEN <<Expense(1, 100 * Unit, "equal",
                   <<Split(1, 0, NoneVal, NoneVal), Split(2, 0, NoneVal, NoneVal)>>)>>
    ELSE <<Expense(3, 300 * Unit, "equal",
                   <<Split(3, 0, NoneVal, NoneVal), Split(4, 0, NoneVal, NoneVal)>>)>>

\* calculate_debts(event_id) on an event without families
CalculateDebts(event_id) ==
    LET b == CalculateBalances(EventExpenses(event_id), NoFamilies, NoFamilyMap).balances
    IN  BuildResult(EventParticipants(event_id), b, MinimizeTransactions(b).settlements)

\* state.update_data(event_id=event_id, debts=debts)
FsmData(event_id, debts) == [event_id |-> event_id, debts |-> debts]

\* notify_calculation_complete(event, debts, participants)
Notification(event_id, debts) == [event_id |-> event_id, debts |-> debts]

InitFsm ==
    /\ participants = {}
    /\ families = NoFamilies
    /\ family_map = NoFamilyMap
    /\ expenses = <<>>
    /\ balances = <<>>
    /\ debtors = <<>>
    /\ creditors = <<>>
    /\ i = 0
    /\ j = 0
    /\ settlements = <<>>
    /\ result = NoResult
    /\ err = "none"
    /\ pc = "idle"
    /\ steps = 0
    /\ previous = <<>>
    /\ participant_rows = NoResult
    /\ expense_rows = <<>>
    /\ settlement_rows = <<>>
    /\ family_rows = NoFamilies
    /\ fsm = <<>>
    /\ keyboards = {}
    /\ notified = <<>>

\* callback_calculate_event by the creator of an event that has a chat: the
\* result goes into the FSM data and a yes/no keyboard carrying the event id
\* is sent
CallbackCalculateEvent(event_id) ==
    /\ pc = "idle"
    /\ fsm' = <<FsmData(event_id, CalculateDebts(event_id))>>
    /\ keyboards' = keyboards \cup {event_id}
    /\ UNCHANGED <<participants, families, family_map, expenses, balances,
                   debtors, creditors, i, j, settlements, result, err, pc>>
    /\ UNCHANGED <<steps, previous, participant_rows, expense_rows>>
    /\ UNCHANGED <<settlement_rows, family_rows, notified>>

\* callback_send_notifications on the "yes" of a keyboard: the event id is
\* read from the button, the debts from the FSM data
CallbackSendNotifications(event_id) ==
    /\ pc = "idle"
    /\ event_id \in keyboards
    /\ Len(notified) < MaxNotifications
    /\ IF fsm = <<>>
       THEN UNCHANGED <<fsm, keyboards, notified>>
       ELSE /\ notified' = Append(notified, Notification(event_id, fsm[1].debts))
            /\ fsm' = <<>>
            /\ keyboards' = keyboards \ {event_id}
    /\ UNCHANGED <<participants, families, family_map, expenses, balances,
                   debtors, creditors, i, j, settlements, result, err, pc>>
    /\ UNCHANGED <<steps, previous, participant_rows, expense_rows>>
    /\ UNCHANGED <<settlement_rows, family_rows>>

\* callback_skip_notifications on the "no" of a keyboard
CallbackSkipNotifications(event_id) ==
    /\ pc = "idle"
    /\ event_id \in keyboards
    /\ fsm' = <<>>
    /\ keyboards' = keyboards \ {event_id}
    /\ UNCHANGED <<participants, families, family_map, expenses, balances,
                   debtors, creditors, i, j, settlements, result, err, pc>>
    /\ UNCHANGED <<steps, previous, participant_rows, expense_rows>>
    /\ UNCHANGED <<settlement_rows, family_rows, notified>>

NextFsm ==
    \E event_id \in Events :
        \/ CallbackCalculateEvent(event_id)
        \/ CallbackSendNotifications(event_id)
        \/ CallbackSkipNotifications(event_id)

SpecFsm == InitFsm /\ [][NextFsm]_vars

\* C25 as stated: the debts sent under event E are the result of a
\* calculation made for E, never a result held in the FSM data from the
\* calculation of another event.
C25_NotifiedOwnCalculation ==
    \A n \in 1..Len(notified) :
        notified[n].debts = CalculateDebts(notified[n].event_id)

\* what the code does: the debts sent are those of the last calculation,
\* whichever event it was made for
NotifiedLastCalculation ==
    [][\A event_id \in Events :
          (CallbackSendNotifications(event_id) /\ notified' # notified) =>
              /\ fsm # <<>>
              /\ notified'[Len(notified')] = Notification(event_id, fsm[1].debts)]_vars

\* the debts of event 2 sent under event 1
NotifiedOtherEvent ==
    /\ Len(notified) = 1
    /\ notified[1] = Notification(1, CalculateDebts(2))

\* ---------------------------------------------------------------------
\* The four loads of calculate_debts beside a handler that edits a family
\* ---------------------------------------------------------------------
\* Every load is a statement of its own in the session of the calculating
\* handler; the engine is created without an isolation level, so each
\* statement reads what is committed when it runs.  The handlers of other
\* updates run in sessions of their own and commit between the statements.

\* _get_event_families: {f.id: f}, each family with the members selectinload
\* finds for it
GetEventFamilies(rows) == rows

\* _build_family_map in the session that loaded the families: the member
\* rows are read anew, while a Family the session already holds is returned
\* as it was loaded, its family_head_id not refreshed
BuildFamilyMapInSession(rows, loaded) ==
    [p \in UNION {rows[f].members : f \in DOMAIN rows} |->
        LET f == CHOOSE g \in DOMAIN rows : p \in rows[g].members
        IN  [family_id |-> f,
             family_head_id |-> IF f \in DOMAIN loaded
                                THEN loaded[f].family_head_id
                                ELSE rows[f].family_head_id]]

\* the expense of the event: paid by 3, for the family and participant 3, for
\* the participants 2 and 3, or for all three
LoadedExpenses ==
    {<<Expense(3, 90 * Unit, "equal",
               <<Split(0, 1, NoneVal, NoneVal), Split(3, 0, NoneVal, NoneVal)>>)>>,
     <<Expense(3, 90 * Unit, "equal",
               <<Split(2, 0, NoneVal, NoneVal), Split(3, 0, NoneVal, NoneVal)>>)>>,
     <<Expense(3, 90 * Unit, "equal",
               <<Split(0, 1, NoneVal, NoneVal), Split(2, 0, NoneVal, NoneVal),
                 Split(3, 0, NoneVal, NoneVal)>>)>>}

Loading == pc \in {"load_expenses", "load_participants", "load_families", "load_family_map"}

InitLoads ==
    /\ participants = NoResult
    /\ families = NoFamilies
    /\ family_map = NoFamilyMap
    /\ expenses = <<>>
    /\ balances = <<>>
    /\ debtors = <<>>
    /\ creditors = <<>>
    /\ i = 0
    /\ j = 0
    /\ settlements = <<>>
    /\ result = NoResult
    /\ err = "none"
    /\ pc = "load_expenses"
    /\ steps = 0
    /\ previous = <<>>
    /\ participant_rows = [p \in Participants |-> ParticipantRow(TRUE)]
    /\ \E es \in LoadedExpenses :
          expense_rows = [k \in DOMAIN es |-> ExpenseRow(es[k], FALSE)]
    /\ settlement_rows = <<>>
    /\ family_rows = [f \in {1} |-> Family({1, 2}, 1)]
    /\ fsm = <<>>
    /\ keyboards = {}
    /\ notified = <<>>

\* line 45
LoadExpenses ==
    /\ pc = "load_expenses"
    /\ expenses' = GetEventExpenses(expense_rows)
    /\ pc' = "load_participants"
    /\ UNCHANGED <<participants, families, family_map, balances, debtors, creditors,
                   i, j, settlements, result, err>>
    /\ UNCHANGED <<steps, previous, participant_rows, expense_rows>>
    /\ UNCHANGED <<settlement_rows, family_rows, fsm, keyboards, notified>>

\* line 48
LoadParticipants ==
    /\ pc = "load_participants"
    /\ participants' = GetEventParticipants(participant_rows)
    /\ pc' = "load_families"
    /\ UNCHANGED <<families, family_map, expenses, balances, debtors, creditors,
                   i, j, settlements, result, err>>
    /\ UNCHANGED <<steps, previous, participant_rows, expense_rows>>
    /\ UNCHANGED <<settlement_rows, family_rows, fsm, keyboards, notified>>

\* line 49
LoadFamilies ==
    /\ pc = "load_families"
    /\ families' = GetEventFamilies(family_rows)
    /\ pc' = "load_family_map"
    /\ UNCHANGED <<participants, family_map, expenses, balances, debtors, creditors,
                   i, j, settlements, result, err>>
    /\ UNCHANGED <<steps, previous, participant_rows, expense_rows>>
    /\ UNCHANGED <<settlement_rows, family_rows, fsm, keyboards, notified>>

\* line 52
LoadFamilyMap ==
    /\ pc = "load_family_map"
    /\ family_map' = BuildFamilyMapInSession(family_rows, families)
    /\ pc' = "balances"
    /\ UNCHANGED <<participants, families, expenses, balances, debtors, creditors,
                   i, j, settlements, result, err>>
    /\ UNCHANGED <<steps, previous, participant_rows, expense_rows>>
    /\ UNCHANGED <<settlement_rows, family_rows, fsm, keyboards, notified>>

\* what a handler of another update leaves untouched
OtherHandler ==
    /\ Loading
    /\ UNCHANGED <<participants, families, family_map, expenses, balances,
                   debtors, creditors, i, j, settlements, result, err, pc>>
    /\ UNCHANGED <<steps, previous, participant_rows, expense_rows>>
    /\ UNCHANGED <<settlement_rows, fsm, keyboards, notified>>

\* update_family(family_id, user_id, family_head_id=head), committed
UpdateFamily ==
    /\ OtherHandler
    /\ \E f \in DOMAIN family_rows, head \in 1..MaxFamilySize :
          /\ head # family_rows[f].family_head_id
          /\ family_rows' = [family_rows EXCEPT ![f].family_head_id = head]

\* add_family_member(family_id, participant_id), committed
AddFamilyMember ==
    /\ OtherHandler
    /\ \E f \in DOMAIN family_rows, p \in 1..MaxFamilySize :
          /\ p \notin family_rows[f].members
          /\ family_rows' = [family_rows EXCEPT ![f].members = @ \cup {p}]

\* remove_family_member(family_id, participant_id), committed
RemoveFamilyMember ==
    /\ OtherHandler
    /\ \E f \in DOMAIN family_rows, p \in 1..MaxFamilySize :
          /\ p \in family_rows[f].members
          /\ family_rows' = [family_rows EXCEPT ![f].members = @ \ {p}]

NextLoads ==
    \/ LoadExpenses
    \/ LoadParticipants
    \/ LoadFamilies
    \/ LoadFamilyMap
    \/ UpdateFamily
    \/ AddFamilyMember
    \/ RemoveFamilyMember
    \/ Balance
    \/ Minimize
    \/ Assemble

SpecLoads == InitLoads /\ [][NextLoads]_vars

Loaded == pc \in {"balances", "minimize", "assemble", "done", "raised"}

\* C24 as stated: the loads see one version of the event even when another
\* handler changes a family's head or membership between them: for every
\* family of the families load, the family map gives each of its members
\* the head of that family.
C24_LoadsSeeOneVersion ==
    Loaded =>
        \A f \in DOMAIN families : \A p \in families[f].members :
            /\ p \in DOMAIN family_map
            /\ family_map[p].family_id = f
            /\ family_map[p].family_head_id = families[f].family_head_id

\* what the session keeps together: a member that the family map assigns to
\* a family of the families load is given the head of that load
MappedHeadIsLoadedHead ==
    Loaded =>
        \A p \in DOMAIN family_map :
            family_map[p].family_id \in DOMAIN families =>
                family_map[p].family_head_id = families[family_map[p].family_id].family_head_id

\* participant 2 is removed from the family between the two loads: the
\* family entry charges the head for two members and the entry of 2 charges 2
RemovedBetweenLoads ==
    /\ Done
    /\ families = [f \in {1} |-> Family({1, 2}, 1)]
    /\ DOMAIN family_map = {1}
    /\ Len(expenses[1].splits) = 3
    /\ balances = <<Entry(3, 60 * Unit), Entry(1, -60 * Unit), Entry(2, -30 * Unit)>>

\* ---------------------------------------------------------------------
\* The same snapshot loaded in another order
\* ---------------------------------------------------------------------
\* The queries of the loads have no ORDER BY: a later call may be handed the
\* expenses, and the split entries of an expense, in another order.

\* the targets an entry can have: participant 1, 2 or 3, or family 1
ReorderedTargets == <<[p |-> 1, f |-> 0], [p |-> 2, f |-> 0], [p |-> 3, f |-> 0],
                      [p |-> 0, f |-> 1]>>

\* the entries for the targets T, in the order of ReorderedTargets; the
\* entries of a specific expense are of 0.50 each
ReorderedSplits(T, type) ==
    [k \in 1..Cardinality(T) |->
        LET t == ReorderedTargets[Nth(T, k)]
        IN  Split(t.p, t.f, IF type = "specific" THEN 50 * Cent ELSE NoneVal, NoneVal)]

RECURSIVE SumAmounts(_)
SumAmounts(es) == IF es = <<>> THEN 0 ELSE es[1].amount + SumAmounts(Tail(es))

InitReorder ==
    /\ participants = [p \in Participants |-> NameOf(p)]
    /\ \E present \in BOOLEAN :
          /\ families = IF present THEN [f \in {1} |-> Family({1, 2}, 1)] ELSE NoFamilies
          /\ \E n \in 0..MaxReorderedExpenses :
                \E payer \in [1..n -> {1, 2}], amount \in [1..n -> {Unit, 1000 * Unit}],
                   type \in [1..n -> {"equal", "specific"}],
                   T \in [1..n -> SUBSET (1..4)] :
                      /\ \A k \in 1..n :
                            /\ T[k] # {}
                            /\ Cardinality(T[k]) <= MaxSplits
                            /\ ~present => 4 \notin T[k]
                            /\ type[k] = "specific" => (payer[k] = 1 /\ amount[k] = Unit)
                      /\ expenses = [k \in 1..n |->
                            Expense(payer[k], amount[k], type[k],
                                    ReorderedSplits(T[k], type[k]))]
    /\ SumAmounts(expenses) <= 2002 * Unit
    /\ family_map = BuildFamilyMap(families)
    /\ balances = <<>>
    /\ debtors = <<>>
    /\ creditors = <<>>
    /\ i = 0
    /\ j = 0
    /\ settlements = <<>>
    /\ result = NoResult
    /\ err = "none"
    /\ pc = "balances"
    /\ steps = 0
    /\ previous = <<>>
    /\ participant_rows = [p \in Participants |-> ParticipantRow(TRUE)]
    /\ expense_rows = [k \in DOMAIN expenses |-> ExpenseRow(expenses[k], FALSE)]
    /\ settlement_rows = <<>>
    /\ family_rows = families
    /\ fsm = <<>>
    /\ keyboards = {}
    /\ notified = <<>>

\* the orders of n places
Orders(n) == {f \in [1..n -> 1..n] : \A a, b \in 1..n : a # b => f[a] # f[b]}

\* the list s in the order f
Permute(s, f) == [k \in 1..Len(s) |-> s[f[k]]]

\* a further call for which _get_event_expenses returns the same expenses in
\* the order f, the entries of the k-th of them in the order g[k]
Reorder ==
    /\ pc \in {"minimize", "raised"}
    /\ Len(previous) < MaxRecalculations
    /\ previous' = Append(previous, Outcome)
    /\ \E f \in Orders(Len(expenses)) :
          \E g \in [1..Len(expenses) -> Orders(MaxSplits)] :
             /\ \A k \in 1..Len(expenses) :
                   \A m \in 1..MaxSplits : m > Len(expenses[f[k]].splits) => g[k][m] = m
             /\ expenses' = [k \in 1..Len(expenses) |->
                   [expenses[f[k]] EXCEPT !.splits = Permute(@, g[k])]]
    /\ pc' = "balances"
    /\ UNCHANGED <<participants, families, family_map, balances,
                   debtors, creditors, i, j, settlements, result, err,
                   steps, participant_rows, expense_rows>>
    /\ UNCHANGED <<settlement_rows, family_rows, fsm, keyboards, notified>>

NextReorder == Balance \/ Reorder

SpecReorder == InitReorder /\ [][NextReorder]_vars

\* balances were returned for the snapshot in an earlier order and in this one
ReturnedInTwoOrders ==
    /\ pc = "minimize"
    /\ previous # <<>>
    /\ previous[1].err = "none"

\* every share is a whole number of cents: the amount of each equal expense
\* divides into whole cents (the shares of the other expenses are stored
\* with two decimal places)
WholeCentShares ==
    \A e \in AllExpenses :
        e.split_type = "equal" => e.amount % (Len(e.splits) * Cent) = 0

\* C30 as stated: every permutation of the expenses or of the split entries
\* of an expense yields the same balance for every participant.
C30_SameBalancesAnyOrder ==
    ReturnedInTwoOrders =>
        \A p \in Participants :
            DictGet(balances, p, 0) = DictGet(previous[1].balances, p, 0)

\* C30 amended: every permutation yields a balance for the same participants;
\* the balances are the same whenever no share is a rounded quotient (each
\* equal expense divides into whole cents), and otherwise differ by no more
\* than the rounding of the additions made to them: one unit, for each
\* addition, of the last digit the context keeps of the largest value, which
\* here has the digits of the total of the amounts.
C30_SameBalancesUpToRounding ==
    ReturnedInTwoOrders =>
        /\ DictKeys(balances) = DictKeys(previous[1].balances)
        /\ WholeCentShares =>
              \A p \in Participants :
                  DictGet(balances, p, 0) = DictGet(previous[1].balances, p, 0)
        /\ \A p \in Participants :
              Abs(DictGet(balances, p, 0) - DictGet(previous[1].balances, p, 0))
                  <= (Len(expenses) + EntryCount(expenses)) * Quantum(SumAmounts(expenses))

\* two expenses of whole-cent shares, one of them of 1000.00, computed in two
\* orders that insert the participants in different order: the same balances
C30_Witness ==
    /\ ReturnedInTwoOrders
    /\ WholeCentShares
    /\ Len(expenses) = 2
    /\ expenses[1].amount # expenses[2].amount
    /\ Len(balances) = 3
    /\ balances # previous[1].balances
    /\ \A p \in Participants :
          DictGet(balances, p, 0) = DictGet(previous[1].balances, p, 0)

\* 1.00 and 1000.00 paid by 1, each split among 1, 2 and 3: the payer is left
\* with 667.333334 in one order and 667.333337 in the other
RoundedDifferently ==
    /\ ReturnedInTwoOrders
    /\ DictGet(balances, 1, 0) = 667333334
    /\ DictGet(previous[1].balances, 1, 0) = 667333337

====
